---- MODULE Spec2Model ----
(***************************************************************************)
(* A model of go_youtube_transcript_api: the transcript catalog            *)
(* (TranscriptList / Transcript) and the acquisition pipeline              *)
(* (TranscriptListFetcher).                                                *)
(*                                                                         *)
(* Strings that the code only compares are TLA+ strings.  Strings that the *)
(* code takes apart or extends are sequences: a video id is a sequence of  *)
(* characters (strings.HasPrefix), a caption url is a sequence of url      *)
(* parts (the base followed by its "&..." query parameters).               *)
(***************************************************************************)
EXTENDS Integers, Sequences, FiniteSets, TLC

(* ------------------------------ bounds -------------------------------- *)
MaxTracks == 3            \* caption tracks of a catalog queried by Find*
MaxCodes == 2             \* preferred language codes in one Find* call
MaxTranslateTracks == 2   \* caption tracks of a catalog whose handles are translated
MaxTL == 1                \* entries of translationLanguages of such a catalog
MaxDerived == 1           \* handles created by Translate in one behaviour
MaxRetries == 3           \* largest RetriesWhenBlockedCount tried
MaxRuns == 2              \* entries of errorScreen...subreason.runs
MaxListTracks == 1        \* caption tracks in a response received by List
MaxSnippets == 3          \* snippets of a transcript handed to a formatter
MaxTranscripts == 2       \* transcripts in one FormatTranscripts call
MaxHours == 1             \* whole hours of the times converted to timestamps
MaxFetchTracks == 2       \* caption tracks of a catalog whose handles are fetched
MaxTextLen == 5           \* characters of a snippet text whose tags are removed
MaxElements == 2          \* child elements of the root of a timed-text document
MaxRenderings == 2        \* calls of TranscriptList.String on one catalog
MaxFetches == 2           \* GETs issued by Transcript.Fetch in one behaviour
MaxVideoIDs == 2          \* video IDs on one command line

(* ------------------------------ values -------------------------------- *)
Absent == "absent"                 \* a JSON key that is missing or of the wrong type
NilAddr == 0                       \* the nil *Transcript
NoError == [kind |-> "nil"]        \* the nil error
NoFetched == [Snippets |-> <<>>, isNil |-> TRUE]   \* the nil *FetchedTranscript
EmptyMap == [c \in {} |-> 0]       \* make(map[string]...)
Put(m, k, v) == [c \in (DOMAIN m) \cup {k} |-> IF c = k THEN v ELSE m[c]]

HTTPPrefix == <<"h", "t", "t", "p", ":", "/", "/">>
HTTPSPrefix == <<"h", "t", "t", "p", "s", ":", "/", "/">>

\* strings.HasPrefix
HasPrefix(s, prefix) ==
    /\ Len(s) >= Len(prefix)
    /\ SubSeq(s, 1, Len(prefix)) = prefix

VideoIDs ==
    { <<"a", "b", "c">>,
      <<"h", "t", "t", "p">>,
      HTTPPrefix \o <<"x">>,
      HTTPSPrefix \o <<"x">> }

LanguageCodes == {"en", "zh"}
TargetCodes == {"es", "fr", "xx"}

\* fmt.Sprintf(ThumbnailURLTemplate, videoID)
ThumbnailURL(videoID) == <<"thumb">> \o videoID

RECURSIVE SeqsUpTo(_, _)
SeqsUpTo(S, n) ==
    IF n = 0 THEN {<<>>}
    ELSE LET shorter == SeqsUpTo(S, n - 1)
         IN  shorter \cup {Append(s, x) : s \in {t \in shorter : Len(t) = n - 1}, x \in S}

(* --------------------------- player response -------------------------- *)
\* one element of captions.playerCaptionsTracklistRenderer.translationLanguages
TLEntries ==
    { [languageCode |-> "es", text |-> "Spanish"],
      [languageCode |-> "fr", text |-> "French"],
      [languageCode |-> "es", text |-> "Espanol"],
      [languageCode |-> Absent, text |-> "German"] }

\* one element of captionTracks (baseUrl is the empty url when hasBaseUrl is
\* false)
Track(languageCode, kind, url, isTranslatable) ==
    [languageCode |-> languageCode, kind |-> kind, name |-> "Name",
     hasBaseUrl |-> TRUE, baseUrl |-> url, isTranslatable |-> isTranslatable]
TrackWithoutCode ==
    [languageCode |-> Absent, kind |-> Absent, name |-> "Name",
     hasBaseUrl |-> TRUE, baseUrl |-> <<"u">>, isTranslatable |-> TRUE]
TrackWithoutURL ==
    [languageCode |-> "en", kind |-> "asr", name |-> Absent,
     hasBaseUrl |-> FALSE, baseUrl |-> <<>>, isTranslatable |-> TRUE]

\* the tracks of the catalogs the Find* calls are tried on
FindTracks ==
    {Track(c, k, <<"u", "&fmt=srv3">>, FALSE) : c \in LanguageCodes, k \in {"asr", Absent}}
        \cup {TrackWithoutCode, TrackWithoutURL}
FindCaptionsJSONs ==
    [translationLanguages : {<<>>},
     captionTracks : SeqsUpTo(FindTracks, MaxTracks)]

\* the tracks of the catalogs Translate is tried on
TranslateTracks ==
    {Track("en", k, <<"u", "&fmt=srv3">>, b) : k \in {"asr", Absent}, b \in BOOLEAN}
TranslateCaptionsJSONs ==
    [translationLanguages : SeqsUpTo(TLEntries, MaxTL),
     captionTracks : SeqsUpTo(TranslateTracks, MaxTranslateTracks)]

\* the tracks in the responses List receives
ListTracks ==
    {Track("en", Absent, <<"u", "&fmt=srv3">>, TRUE),
     Track("en", "asr", <<"u", "&exp=xpe">>, FALSE),
     TrackWithoutCode, TrackWithoutURL}
ListCaptionsJSONs ==
    [translationLanguages : {<<>>, <<[languageCode |-> "es", text |-> "Spanish"]>>},
     captionTracks : SeqsUpTo(ListTracks, MaxListTracks)]

VideoDetailsJSONs == [title : {"Title", Absent}]

(* ------------------------------ errors -------------------------------- *)
NewNotTranslatable(videoID) == [kind |-> "NotTranslatable", VideoID |-> videoID]
NewTranslationLanguageNotAvailable(videoID) ==
    [kind |-> "TranslationLanguageNotAvailable", VideoID |-> videoID]
NewNoTranscriptFound(videoID, requestedLanguageCodes, transcriptData) ==
    [kind |-> "NoTranscriptFound", VideoID |-> videoID,
     RequestedLanguageCodes |-> requestedLanguageCodes,
     TranscriptData |-> transcriptData]

(* ----------------------------- Transcript ----------------------------- *)
\* the map NewTranscript builds: a later entry of the list overwrites an
\* earlier one with the same code
RECURSIVE TranslationMap(_)
TranslationMap(translationLanguages) ==
    IF translationLanguages = <<>> THEN EmptyMap
    ELSE LET n == Len(translationLanguages)
             last == translationLanguages[n]
             rest == TranslationMap(SubSeq(translationLanguages, 1, n - 1))
         IN  [c \in (DOMAIN rest) \cup {last.LanguageCode} |->
                 IF c = last.LanguageCode THEN last.Language ELSE rest[c]]

NewTranscript(videoID, title, thumbnailURL, url, language, languageCode, isGenerated, translationLanguages) ==
    [VideoID |-> videoID,
     Title |-> title,
     ThumbnailURL |-> thumbnailURL,
     url |-> url,
     Language |-> language,
     LanguageCode |-> languageCode,
     IsGenerated |-> isGenerated,
     TranslationLanguages |-> translationLanguages,
     translationLanguagesMap |-> TranslationMap(translationLanguages)]

IsTranslatable(t) == Len(t.TranslationLanguages) > 0

\* Transcript.Translate on the handle at address a of heap h.  The result is
\* the error, the address of the returned handle and the heap afterwards.
\* (TranslateInPlace, TranslateKeepsFlag and TranslateLookupFirst are faulty
\* variants the properties are tried against.)

\* Translate rewriting the receiver and returning it
TranslateInPlace(h, a, languageCode) ==
    LET t == h[a]
    IN  IF ~IsTranslatable(t)
        THEN [err |-> NewNotTranslatable(t.VideoID), ret |-> NilAddr, heap |-> h]
        ELSE IF languageCode \notin DOMAIN t.translationLanguagesMap
        THEN [err |-> NewTranslationLanguageNotAvailable(t.VideoID), ret |-> NilAddr, heap |-> h]
        ELSE [err |-> NoError, ret |-> a,
              heap |-> [h EXCEPT ![a] =
                  NewTranscript(t.VideoID, t.Title, t.ThumbnailURL,
                                t.url \o <<"&tlang=", languageCode>>,
                                t.translationLanguagesMap[languageCode],
                                languageCode, TRUE, <<>>)]]

\* Translate copying the flag of the receiver instead of forcing it
TranslateKeepsFlag(h, a, languageCode) ==
    LET t == h[a]
    IN  IF ~IsTranslatable(t)
        THEN [err |-> NewNotTranslatable(t.VideoID), ret |-> NilAddr, heap |-> h]
        ELSE IF languageCode \notin DOMAIN t.translationLanguagesMap
        THEN [err |-> NewTranslationLanguageNotAvailable(t.VideoID), ret |-> NilAddr, heap |-> h]
        ELSE [err |-> NoError, ret |-> Len(h) + 1,
              heap |-> Append(h,
                  NewTranscript(t.VideoID, t.Title, t.ThumbnailURL,
                                t.url \o <<"&tlang=", languageCode>>,
                                t.translationLanguagesMap[languageCode],
                                languageCode, t.IsGenerated, <<>>))]

\* Translate looking the code up before testing IsTranslatable
TranslateLookupFirst(h, a, languageCode) ==
    LET t == h[a]
    IN  IF languageCode \notin DOMAIN t.translationLanguagesMap
        THEN [err |-> NewTranslationLanguageNotAvailable(t.VideoID), ret |-> NilAddr, heap |-> h]
        ELSE IF ~IsTranslatable(t)
        THEN [err |-> NewNotTranslatable(t.VideoID), ret |-> NilAddr, heap |-> h]
        ELSE [err |-> NoError, ret |-> Len(h) + 1,
              heap |-> Append(h,
                  NewTranscript(t.VideoID, t.Title, t.ThumbnailURL,
                                t.url \o <<"&tlang=", languageCode>>,
                                t.translationLanguagesMap[languageCode],
                                languageCode, TRUE, <<>>))]

Translate(h, a, languageCode) ==
    LET t == h[a]
    IN  IF ~IsTranslatable(t)
        THEN [err |-> NewNotTranslatable(t.VideoID), ret |-> NilAddr, heap |-> h]
        ELSE IF languageCode \notin DOMAIN t.translationLanguagesMap
        THEN [err |-> NewTranslationLanguageNotAvailable(t.VideoID), ret |-> NilAddr, heap |-> h]
        ELSE LET translatedURL == t.url \o <<"&tlang=", languageCode>>
             IN  [err |-> NoError, ret |-> Len(h) + 1,
                  heap |-> Append(h,
                      NewTranscript(t.VideoID, t.Title, t.ThumbnailURL,
                                    translatedURL,
                                    t.translationLanguagesMap[languageCode],
                                    languageCode, TRUE, <<>>))]


(* --------------------------- TranscriptList --------------------------- *)
NewTranscriptList(videoID, manuallyCreatedTranscripts, generatedTranscripts, translationLanguages) ==
    [VideoID |-> videoID,
     manuallyCreatedTranscripts |-> manuallyCreatedTranscripts,
     generatedTranscripts |-> generatedTranscripts,
     translationLanguages |-> translationLanguages]

\* the first loop of BuildTranscriptList: entries without a text or a
\* languageCode are left out
RECURSIVE ParseTranslationLanguages(_)
ParseTranslationLanguages(translationLangs) ==
    IF translationLangs = <<>> THEN <<>>
    ELSE LET entry == Head(translationLangs)
             rest == ParseTranslationLanguages(Tail(translationLangs))
         IN  IF entry.text # Absent /\ entry.languageCode # Absent
             THEN <<[Language |-> entry.text, LanguageCode |-> entry.languageCode]>> \o rest
             ELSE rest

\* strings.ReplaceAll(baseURL, "&fmt=srv3", "")
StripFmt(baseURL) == SelectSeq(baseURL, LAMBDA part : part # "&fmt=srv3")

\* the second loop of BuildTranscriptList, over the remaining tracks; acc is
\* the heap and the two maps built so far.  videoDetailsJSON["title"].(string)
\* is evaluated for every track that has a languageCode and a baseUrl and
\* panics when the title is not a string.
RECURSIVE BuildTracks(_, _, _, _, _)
BuildTracks(captionTracks, videoID, videoDetailsJSON, translationLanguages, acc) ==
    IF captionTracks = <<>> \/ acc.panic THEN acc
    ELSE LET captionMap == Head(captionTracks)
             isGenerated == captionMap.kind = "asr"
             languageName == IF captionMap.name = Absent THEN "" ELSE captionMap.name
             baseURL == StripFmt(captionMap.baseUrl)
             translationLangs == IF captionMap.isTranslatable
                                 THEN translationLanguages ELSE <<>>
             addr == Len(acc.heap) + 1
             t == NewTranscript(videoID, videoDetailsJSON.title, ThumbnailURL(videoID),
                                baseURL, languageName, captionMap.languageCode,
                                isGenerated, translationLangs)
             next ==
                 IF captionMap.languageCode = Absent \/ ~captionMap.hasBaseUrl
                 THEN acc
                 ELSE IF videoDetailsJSON.title = Absent
                 THEN [acc EXCEPT !.panic = TRUE]
                 ELSE IF isGenerated
                 THEN [acc EXCEPT !.heap = Append(@, t),
                                  !.generated = Put(@, captionMap.languageCode, addr)]
                 ELSE [acc EXCEPT !.heap = Append(@, t),
                                  !.manual = Put(@, captionMap.languageCode, addr)]
         IN  BuildTracks(Tail(captionTracks), videoID, videoDetailsJSON,
                         translationLanguages, next)

\* BuildTranscriptList: the handles it allocates (heap) and the catalog (tl)
\* BuildTranscriptList keeping every handle in the manual map
BuildTranscriptListInOneMap(videoID, videoDetailsJSON, captionsJSON) ==
    LET translationLanguages == ParseTranslationLanguages(captionsJSON.translationLanguages)
        built == BuildTracks(captionsJSON.captionTracks, videoID, videoDetailsJSON,
                             translationLanguages,
                             [panic |-> FALSE, heap |-> <<>>,
                              manual |-> EmptyMap, generated |-> EmptyMap])
        both == (DOMAIN built.manual) \cup (DOMAIN built.generated)
        merged == [c \in both |-> IF c \in DOMAIN built.manual
                                  THEN built.manual[c] ELSE built.generated[c]]
    IN  [panic |-> built.panic,
         heap |-> built.heap,
         tl |-> NewTranscriptList(videoID, merged, EmptyMap, translationLanguages)]

\* BuildTranscriptList: the catalog, the handles it points to, and whether
\* the call panicked
BuildTranscriptList(videoID, videoDetailsJSON, captionsJSON) ==
    LET translationLanguages == ParseTranslationLanguages(captionsJSON.translationLanguages)
        built == BuildTracks(captionsJSON.captionTracks, videoID, videoDetailsJSON,
                             translationLanguages,
                             [panic |-> FALSE, heap |-> <<>>,
                              manual |-> EmptyMap, generated |-> EmptyMap])
    IN  [panic |-> built.panic,
         heap |-> built.heap,
         tl |-> NewTranscriptList(videoID, built.manual, built.generated,
                                  translationLanguages)]

\* the inner loop of findTranscript: the dictionaries in order
RECURSIVE LookupDicts(_, _)
LookupDicts(languageCode, transcriptDicts) ==
    IF transcriptDicts = <<>> THEN NilAddr
    ELSE IF languageCode \in DOMAIN Head(transcriptDicts)
    THEN Head(transcriptDicts)[languageCode]
    ELSE LookupDicts(languageCode, Tail(transcriptDicts))

\* the outer loop of findTranscript: the codes in caller order
RECURSIVE FindLoop(_, _)
FindLoop(languageCodes, transcriptDicts) ==
    IF languageCodes = <<>> THEN NilAddr
    ELSE LET found == LookupDicts(Head(languageCodes), transcriptDicts)
         IN  IF found # NilAddr THEN found
             ELSE FindLoop(Tail(languageCodes), transcriptDicts)

findTranscript(list, languageCodes, transcriptDicts) ==
    LET found == FindLoop(languageCodes, transcriptDicts)
    IN  IF found # NilAddr
        THEN [err |-> NoError, ret |-> found]
        ELSE [err |-> NewNoTranscriptFound(list.VideoID, languageCodes, list),
              ret |-> NilAddr]

\* FindTranscript exhausting the manual map before the generated one
FindTranscriptManualFirst(list, languageCodes) ==
    LET manual == FindLoop(languageCodes, <<list.manuallyCreatedTranscripts>>)
        generated == FindLoop(languageCodes, <<list.generatedTranscripts>>)
    IN  IF manual # NilAddr THEN [err |-> NoError, ret |-> manual]
        ELSE IF generated # NilAddr THEN [err |-> NoError, ret |-> generated]
        ELSE [err |-> NewNoTranscriptFound(list.VideoID, languageCodes, list),
              ret |-> NilAddr]

FindTranscript(list, languageCodes) ==
    findTranscript(list, languageCodes,
                   <<list.manuallyCreatedTranscripts, list.generatedTranscripts>>)

\* FindManuallyCreatedTranscript falling back on the generated map
FindManuallyCreatedTranscriptOrGenerated(list, languageCodes) ==
    findTranscript(list, languageCodes,
                   <<list.manuallyCreatedTranscripts, list.generatedTranscripts>>)

FindManuallyCreatedTranscript(list, languageCodes) ==
    findTranscript(list, languageCodes, <<list.manuallyCreatedTranscripts>>)

FindGeneratedTranscript(list, languageCodes) ==
    findTranscript(list, languageCodes, <<list.generatedTranscripts>>)


(* ------------------------- TranscriptList.String ---------------------- *)
\* Transcript.String: the pieces of the text
TranscriptString(t) ==
    <<t.LanguageCode, " (\"", t.Language, "\")">>
        \o (IF IsTranslatable(t) THEN <<"[TRANSLATABLE]">> ELSE <<>>)

\* the orders in which a range loop may visit the keys of a map: Go leaves
\* the order of a map iteration unspecified, and it may differ between two
\* loops over the same map
IterationOrders(transcripts) ==
    LET keys == DOMAIN transcripts
        n == Cardinality(keys)
    IN  {order \in [1 .. n -> keys] : \A k, l \in 1 .. n : order[k] = order[l] => k = l}

RECURSIVE DescribeInOrder(_, _, _)
DescribeInOrder(h, transcripts, order) ==
    IF order = <<>> THEN <<>>
    ELSE <<" - ">> \o TranscriptString(h[transcripts[Head(order)]]) \o <<"\n">>
            \o DescribeInOrder(h, transcripts, Tail(order))

\* getLanguageDescription, the range loop visiting the keys in this order
getLanguageDescription(h, transcripts, order) ==
    IF DOMAIN transcripts = {} THEN <<"None">>
    ELSE DescribeInOrder(h, transcripts, order)

RECURSIVE DescribeTranslationLanguages(_)
DescribeTranslationLanguages(translationLanguages) ==
    IF translationLanguages = <<>> THEN <<>>
    ELSE <<" - ", Head(translationLanguages).LanguageCode, " (\"",
           Head(translationLanguages).Language, "\")\n">>
            \o DescribeTranslationLanguages(Tail(translationLanguages))

\* TranscriptList.String, the two range loops visiting the keys in these orders
String(h, list, manualOrder, generatedOrder) ==
    <<"For this video (">> \o list.VideoID
        \o <<") transcripts are available in the following languages:\n\n">>
        \o <<"(MANUALLY CREATED)\n">>
        \o getLanguageDescription(h, list.manuallyCreatedTranscripts, manualOrder)
        \o <<"\n\n", "(GENERATED)\n">>
        \o getLanguageDescription(h, list.generatedTranscripts, generatedOrder)
        \o <<"\n\n", "(TRANSLATION LANGUAGES)\n">>
        \o (IF Len(list.translationLanguages) = 0 THEN <<"None">>
            ELSE DescribeTranslationLanguages(list.translationLanguages))

(* ----------------------------- ProxyConfig ---------------------------- *)
NilProxyConfig == [type |-> "nil"]
GenericProxyConfig == [type |-> "GenericProxyConfig"]
WebshareProxyConfig(retriesWhenBlocked) ==
    [type |-> "WebshareProxyConfig", RetriesWhenBlockedCount |-> retriesWhenBlocked]

ProxyConfigs ==
    {NilProxyConfig, GenericProxyConfig}
        \cup {WebshareProxyConfig(r) : r \in -1 .. MaxRetries}

\* GenericProxyConfig.RetriesWhenBlocked / WebshareProxyConfig.RetriesWhenBlocked
RetriesWhenBlocked(proxyConfig) ==
    IF proxyConfig.type = "WebshareProxyConfig"
    THEN proxyConfig.RetriesWhenBlockedCount
    ELSE 0

(* ------------------- constructing a ProxyConfig ----------------------- *)
\* (*T)(nil), as a constructor returns it beside an error
NilConfig == [type |-> "nil"]

InvalidProxyConfig(message) == [kind |-> "InvalidProxyConfig", Message |-> message]

WebshareDefaultDomainName == "p.webshare.io"
WebshareDefaultPort == 80

\* NewGenericProxyConfig: the pair (config, err)
NewGenericProxyConfig(httpURL, httpsURL) ==
    IF httpURL = "" /\ httpsURL = ""
    THEN [config |-> NilConfig,
          err |-> InvalidProxyConfig("GenericProxyConfig requires you to define at least one of the two: http or https")]
    ELSE [config |-> [type |-> "GenericProxyConfig", HTTPURL |-> httpURL,
                      HTTPSURL |-> httpsURL],
          err |-> NoError]

\* NewWebshareProxyConfig: the pair (config, err)
NewWebshareProxyConfig(proxyUsername, proxyPassword, filterIPLocations, retriesWhenBlocked, domainName, proxyPort) ==
    LET domain == IF domainName = "" THEN WebshareDefaultDomainName ELSE domainName
        port == IF proxyPort = 0 THEN WebshareDefaultPort ELSE proxyPort
        base == NewGenericProxyConfig("", "")
    IN  IF base.err # NoError
        THEN [config |-> NilConfig, err |-> base.err]
        ELSE [config |-> [type |-> "WebshareProxyConfig",
                          GenericProxyConfig |-> base.config,
                          ProxyUsername |-> proxyUsername,
                          ProxyPassword |-> proxyPassword,
                          FilterIPLocations |-> filterIPLocations,
                          RetriesWhenBlockedCount |-> retriesWhenBlocked,
                          DomainName |-> domain,
                          ProxyPort |-> port],
              err |-> NoError]

\* strings.ToUpper on the location codes tried
ToUpper(s) ==
    CASE s = "de" -> "DE"
      [] s = "us" -> "US"
      [] OTHER -> s

\* the "-%s" written for each location code
RECURSIVE LocationCodes(_)
LocationCodes(filterIPLocations) ==
    IF filterIPLocations = <<>> THEN <<>>
    ELSE <<"-", ToUpper(Head(filterIPLocations))>> \o LocationCodes(Tail(filterIPLocations))

\* WebshareProxyConfig.URL: the pieces of the text, in order
URL(w) ==
    <<"http://", w.ProxyUsername>> \o LocationCodes(w.FilterIPLocations)
        \o <<"-rotate:", w.ProxyPassword, "@", w.DomainName, ":", ToString(w.ProxyPort), "/">>

\* ToProxyURLs giving each configured url as it is, without the fallback
ToProxyURLsAsConfigured(config) ==
    IF config.type = "WebshareProxyConfig"
    THEN [httpURL |-> URL(config), httpsURL |-> URL(config)]
    ELSE [httpURL |-> <<config.HTTPURL>>, httpsURL |-> <<config.HTTPSURL>>]

\* GenericProxyConfig.ToProxyURLs / WebshareProxyConfig.ToProxyURLs
ToProxyURLs(config) ==
    IF config.type = "WebshareProxyConfig"
    THEN [httpURL |-> URL(config), httpsURL |-> URL(config)]
    ELSE [httpURL |-> IF config.HTTPURL # "" THEN <<config.HTTPURL>>
                      ELSE <<config.HTTPSURL>>,
          httpsURL |-> IF config.HTTPSURL # "" THEN <<config.HTTPSURL>>
                       ELSE <<config.HTTPURL>>]

\* GenericProxyConfig.PreventKeepingConnectionsAlive /
\* WebshareProxyConfig.PreventKeepingConnectionsAlive
PreventKeepingConnectionsAlive(config) == config.type = "WebshareProxyConfig"

(* --------------------------- pipeline errors -------------------------- *)
NewRequestBlocked(videoID) ==
    [kind |-> "RequestBlocked", VideoID |-> videoID, proxyConfig |-> NilProxyConfig]
NewIpBlocked(videoID) ==
    [kind |-> "IpBlocked", VideoID |-> videoID, proxyConfig |-> NilProxyConfig]
WithProxyConfig(e, proxyConfig) == [e EXCEPT !.proxyConfig = proxyConfig]
NewYouTubeRequestFailed(videoID, reason) ==
    [kind |-> "YouTubeRequestFailed", VideoID |-> videoID, Reason |-> reason]
NewYouTubeDataUnparsable(videoID) == [kind |-> "YouTubeDataUnparsable", VideoID |-> videoID]
NewFailedToCreateConsentCookie(videoID) ==
    [kind |-> "FailedToCreateConsentCookie", VideoID |-> videoID]
NewVideoUnplayable(videoID, reason, subReasons) ==
    [kind |-> "VideoUnplayable", VideoID |-> videoID,
     Reason |-> reason, SubReasons |-> subReasons]
NewVideoUnavailable(videoID) == [kind |-> "VideoUnavailable", VideoID |-> videoID]
NewInvalidVideoId(videoID) == [kind |-> "InvalidVideoId", VideoID |-> videoID]
NewAgeRestricted(videoID) == [kind |-> "AgeRestricted", VideoID |-> videoID]
NewTranscriptsDisabled(videoID) == [kind |-> "TranscriptsDisabled", VideoID |-> videoID]

NewPoTokenRequired(videoID) == [kind |-> "PoTokenRequired", VideoID |-> videoID]

(* ---------------------------- error messages -------------------------- *)
\* An explanation is the fixed text of its kind (named by its first words)
\* and the values put into it.
Explanation(text, args) == [text |-> text, args |-> args]

\* fmt.Sprintf(WatchURLTemplate, videoID)
WatchURL(videoID) == <<"https://www.youtube.com/watch?v=">> \o videoID

\* CouldNotRetrieveTranscript.Cause
BaseCause == Explanation("", <<>>)

\* RequestBlocked.Cause
RequestBlockedCause(e) ==
    IF e.proxyConfig # NilProxyConfig /\ e.proxyConfig.type = "WebshareProxyConfig"
    THEN Explanation("YouTube is blocking your requests, despite you using Webshare proxies.", <<>>)
    ELSE IF e.proxyConfig # NilProxyConfig /\ e.proxyConfig.type = "GenericProxyConfig"
    THEN Explanation("YouTube is blocking your requests, despite you using proxies.", <<>>)
    ELSE Explanation("YouTube is blocking requests from your IP. There are two things you can do to work around this:", <<>>)

\* IpBlocked.Cause
IpBlockedCause(e) ==
    Explanation("YouTube is blocking requests from your IP. Ways to work around this are explained in the README", <<>>)

\* VideoUnplayable.Cause
VideoUnplayableCause(e) ==
    LET reason == IF e.Reason = "" THEN "No reason specified!" ELSE e.Reason
    IN  Explanation("The video is unplayable for the following reason: ",
                    <<reason>> \o e.SubReasons)

\* NoTranscriptFound.Cause: the requested codes and the catalog it renders
NoTranscriptFoundCause(e) ==
    Explanation("No transcripts were found for any of the requested language codes: ",
                <<e.RequestedLanguageCodes, e.TranscriptData>>)

\* x.Cause() called on the error value x itself: the method of its own type
Cause(e) ==
    CASE e.kind = "YouTubeDataUnparsable" ->
            Explanation("The data required to fetch the transcript is not parsable.", <<>>)
      [] e.kind = "YouTubeRequestFailed" ->
            Explanation("Request to YouTube failed: ", <<e.Reason>>)
      [] e.kind = "VideoUnplayable" -> VideoUnplayableCause(e)
      [] e.kind = "VideoUnavailable" -> Explanation("The video is no longer available", <<>>)
      [] e.kind = "InvalidVideoId" -> Explanation("You provided an invalid video id.", <<>>)
      [] e.kind = "RequestBlocked" -> RequestBlockedCause(e)
      [] e.kind = "IpBlocked" -> IpBlockedCause(e)
      [] e.kind = "TranscriptsDisabled" ->
            Explanation("Subtitles are disabled for this video", <<>>)
      [] e.kind = "AgeRestricted" -> Explanation("This video is age-restricted.", <<>>)
      [] e.kind = "NotTranslatable" ->
            Explanation("The requested language is not translatable", <<>>)
      [] e.kind = "TranslationLanguageNotAvailable" ->
            Explanation("The requested translation language is not available", <<>>)
      [] e.kind = "FailedToCreateConsentCookie" ->
            Explanation("Failed to automatically give consent to saving cookies", <<>>)
      [] e.kind = "NoTranscriptFound" -> NoTranscriptFoundCause(e)
      [] e.kind = "PoTokenRequired" ->
            Explanation("The requested video cannot be retrieved without a PO Token.", <<>>)

\* CouldNotRetrieveTranscript.buildErrorMessage.  Its receiver is the embedded
\* *CouldNotRetrieveTranscript, so the e.Cause() in it is
\* CouldNotRetrieveTranscript.Cause whatever the kind of the error is.  The
\* message is the sentence with the watch url, then, for a cause that is not
\* empty, the cause and the advice to open an issue.
buildErrorMessage(e) ==
    LET videoURL == WatchURL(e.VideoID)
        cause == BaseCause
    IN  [videoURL |-> videoURL,
         hasCause |-> cause # BaseCause,
         cause |-> cause]

\* x.Error() for an error x of any kind: no kind defines Error, so it is the
\* promoted CouldNotRetrieveTranscript.Error
Error(e) == buildErrorMessage(e)

(* ------------------------------ responses ----------------------------- *)
StatusTooManyRequests == 429
Statuses == {200, 399, 400, 404, 429, 500}

\* what the code looks for in a page body: the consent form marker, the
\* hidden name="v" value, the INNERTUBE_API_KEY and the g-recaptcha marker
PageBodies == [consent : BOOLEAN, hasV : BOOLEAN, hasKey : BOOLEAN, captcha : BOOLEAN]
EmptyBody == [consent |-> FALSE, hasV |-> FALSE, hasKey |-> FALSE, captcha |-> FALSE]

\* a response of httpClient.Get on the watch url whose body can be read, one
\* whose body cannot (bodyErr), or an error of the Get itself (transportErr)
PageResponses ==
    [transportErr : {FALSE}, bodyErr : {FALSE}, status : Statuses, body : PageBodies]
        \cup [transportErr : {FALSE}, bodyErr : {TRUE}, status : Statuses,
              body : {EmptyBody}]
        \cup [transportErr : {TRUE}, bodyErr : {FALSE}, status : {0}, body : {EmptyBody}]

\* raiseHTTPErrors letting the status 400 pass
raiseHTTPErrorsAbove400(status, videoID) ==
    IF status = StatusTooManyRequests THEN NewIpBlocked(videoID)
    ELSE IF status > 400 THEN NewYouTubeRequestFailed(videoID, <<"HTTP", status>>)
    ELSE NoError

\* raiseHTTPErrors
raiseHTTPErrors(status, videoID) ==
    IF status = StatusTooManyRequests THEN NewIpBlocked(videoID)
    ELSE IF status >= 400 THEN NewYouTubeRequestFailed(videoID, <<"HTTP", status>>)
    ELSE NoError

\* fetchHTML, given the response of the GET
fetchHTML(resp, videoID) ==
    IF resp.transportErr
    THEN [err |-> NewYouTubeRequestFailed(videoID, <<"transport">>), html |-> EmptyBody]
    ELSE LET err == raiseHTTPErrors(resp.status, videoID)
         IN  IF err # NoError THEN [err |-> err, html |-> EmptyBody]
             ELSE IF resp.bodyErr
             THEN [err |-> NewYouTubeRequestFailed(videoID, <<"read">>),
                   html |-> EmptyBody]
             ELSE [err |-> NoError, html |-> resp.body]

\* createConsentCookie: the error, and the cookie put in the jar
createConsentCookie(html, videoID) ==
    IF ~html.hasV
    THEN [err |-> NewFailedToCreateConsentCookie(videoID), cookies |-> {}]
    ELSE [err |-> NoError, cookies |-> {"CONSENT"}]

\* fetchVideoHTML not looking at the body of the repeated GET
consentAfterRefetchIgnored(html, videoID) == NoError

\* fetchVideoHTML after the repeated GET: the consent form must be gone
consentAfterRefetch(html, videoID) ==
    IF html.consent THEN NewFailedToCreateConsentCookie(videoID) ELSE NoError

\* extractInnertubeAPIKey
extractInnertubeAPIKey(html, videoID) ==
    IF html.hasKey THEN [err |-> NoError, apiKey |-> "key"]
    ELSE IF html.captcha THEN [err |-> NewIpBlocked(videoID), apiKey |-> ""]
    ELSE [err |-> NewYouTubeDataUnparsable(videoID), apiKey |-> ""]


(* --------------------------- player response -------------------------- *)
PlayabilityStatusOK == "OK"
PlayabilityStatusError == "ERROR"
PlayabilityStatusLoginRequired == "LOGIN_REQUIRED"
PlayabilityFailedReasonBotDetected == "Sign in to confirm you're not a bot"
PlayabilityFailedReasonAgeRestricted == "This video may be inappropriate for some users."
PlayabilityFailedReasonVideoUnavailable == "This video is unavailable"

PlayabilityStatusValues ==
    {Absent, PlayabilityStatusOK, PlayabilityStatusError,
     PlayabilityStatusLoginRequired, "UNPLAYABLE"}
PlayabilityReasons ==
    {Absent, PlayabilityFailedReasonBotDetected, PlayabilityFailedReasonAgeRestricted,
     PlayabilityFailedReasonVideoUnavailable, "Private video"}

\* errorScreen.playerErrorMessageRenderer.subreason.runs: depth is the number
\* of these four keys, from the outside, that are present with the expected
\* type; a run is its text, or Absent when it is not a map with a text string
RunValues == {"sub1", "sub2", Absent}
ErrorScreens ==
    [depth : 0 .. 3, runs : {<<>>}]
        \cup [depth : {4}, runs : SeqsUpTo(RunValues, MaxRuns)]

NoPlayabilityStatus ==
    [present |-> FALSE, status |-> Absent, reason |-> Absent,
     errorScreen |-> [depth |-> 0, runs |-> <<>>]]
PlayabilityStatusDatas ==
    {NoPlayabilityStatus}
        \cup [present : {TRUE}, status : PlayabilityStatusValues,
              reason : PlayabilityReasons, errorScreen : ErrorScreens]

NoVideoDetails == [present |-> FALSE, title |-> Absent]
VideoDetailsDatas == {NoVideoDetails} \cup [present : {TRUE}, title : {"Title", Absent}]

\* captions.playerCaptionsTracklistRenderer.captionTracks: level is the number
\* of these three keys, from the outside, that are present
TrivialCaptions == [translationLanguages |-> <<>>, captionTracks |-> <<>>]
CaptionsDatas ==
    [level : 0 .. 2, json : {TrivialCaptions}]
        \cup [level : {3}, json : ListCaptionsJSONs]

\* the decoded player responses tried: every playability status with every
\* presence pattern of videoDetails and captions, and every videoDetails and
\* captions content under a playable status
InnertubeDatas ==
    [playabilityStatus : PlayabilityStatusDatas,
     videoDetails : {NoVideoDetails, [present |-> TRUE, title |-> "Title"]},
     captions : [level : 0 .. 3, json : {TrivialCaptions}]]
    \cup
    [playabilityStatus : {NoPlayabilityStatus,
                          [present |-> TRUE, status |-> PlayabilityStatusOK,
                           reason |-> Absent,
                           errorScreen |-> [depth |-> 0, runs |-> <<>>]]},
     videoDetails : VideoDetailsDatas,
     captions : CaptionsDatas]

EmptyInnertubeData ==
    [playabilityStatus |-> NoPlayabilityStatus, videoDetails |-> NoVideoDetails,
     captions |-> [level |-> 0, json |-> TrivialCaptions]]

\* a response of httpClient.Post on the player url whose body decodes to
\* data, one whose body is not JSON (bodyErr), or an error of the Post itself
\* (transportErr)
PlayerResponses ==
    [transportErr : {FALSE}, bodyErr : {FALSE}, status : {200}, data : InnertubeDatas]
        \cup [transportErr : {FALSE}, bodyErr : BOOLEAN, status : Statuses,
              data : {EmptyInnertubeData}]
        \cup [transportErr : {TRUE}, bodyErr : {FALSE}, status : {0},
              data : {EmptyInnertubeData}]

\* fetchInnertubeData, given the response of the POST
fetchInnertubeData(resp, videoID) ==
    IF resp.transportErr
    THEN [err |-> NewYouTubeRequestFailed(videoID, <<"transport">>),
          data |-> EmptyInnertubeData]
    ELSE LET err == raiseHTTPErrors(resp.status, videoID)
         IN  IF err # NoError THEN [err |-> err, data |-> EmptyInnertubeData]
             ELSE IF resp.bodyErr
             THEN [err |-> NewYouTubeRequestFailed(videoID, <<"decode">>),
                   data |-> EmptyInnertubeData]
             ELSE [err |-> NoError, data |-> resp.data]

\* the sub-reason loop of assertPlayability
SubReasons(errorScreen) ==
    IF errorScreen.depth = 4
    THEN SelectSeq(errorScreen.runs, LAMBDA text : text # Absent)
    ELSE <<>>

\* assertPlayability taking every LOGIN_REQUIRED but bot detection for an age
\* restriction
assertPlayabilityLoginIsAge(innertubeData, videoID) ==
    LET playabilityStatusData == innertubeData.playabilityStatus
        status == playabilityStatusData.status
        reason == IF playabilityStatusData.reason = Absent
                  THEN "" ELSE playabilityStatusData.reason
    IN  IF ~playabilityStatusData.present THEN NoError
        ELSE IF status = Absent \/ status = PlayabilityStatusOK THEN NoError
        ELSE IF status = PlayabilityStatusLoginRequired
                /\ reason = PlayabilityFailedReasonBotDetected
        THEN NewRequestBlocked(videoID)
        ELSE IF status = PlayabilityStatusLoginRequired
        THEN NewAgeRestricted(videoID)
        ELSE IF status = PlayabilityStatusError
                /\ reason = PlayabilityFailedReasonVideoUnavailable
        THEN IF HasPrefix(videoID, HTTPPrefix) \/ HasPrefix(videoID, HTTPSPrefix)
             THEN NewInvalidVideoId(videoID)
             ELSE NewVideoUnavailable(videoID)
        ELSE NewVideoUnplayable(videoID, reason,
                                SubReasons(playabilityStatusData.errorScreen))

\* assertPlayability
assertPlayability(innertubeData, videoID) ==
    LET playabilityStatusData == innertubeData.playabilityStatus
        status == playabilityStatusData.status
        reason == IF playabilityStatusData.reason = Absent
                  THEN "" ELSE playabilityStatusData.reason
    IN  IF ~playabilityStatusData.present THEN NoError
        ELSE IF status = Absent \/ status = PlayabilityStatusOK THEN NoError
        ELSE IF status = PlayabilityStatusLoginRequired
                /\ reason = PlayabilityFailedReasonBotDetected
        THEN NewRequestBlocked(videoID)
        ELSE IF status = PlayabilityStatusLoginRequired
                /\ reason = PlayabilityFailedReasonAgeRestricted
        THEN NewAgeRestricted(videoID)
        ELSE IF status = PlayabilityStatusError
                /\ reason = PlayabilityFailedReasonVideoUnavailable
        THEN IF HasPrefix(videoID, HTTPPrefix) \/ HasPrefix(videoID, HTTPSPrefix)
             THEN NewInvalidVideoId(videoID)
             ELSE NewVideoUnavailable(videoID)
        ELSE NewVideoUnplayable(videoID, reason,
                                SubReasons(playabilityStatusData.errorScreen))

\* extractVideoDetailsAndCaptionsJSON looking for the captions before the
\* videoDetails
extractCaptionsFirst(innertubeData, videoID) ==
    LET err == assertPlayability(innertubeData, videoID)
        none == [videoDetailsJSON |-> [title |-> Absent], captionsJSON |-> TrivialCaptions]
    IN  IF err # NoError
        THEN [err |-> err] @@ none
        ELSE IF innertubeData.captions.level < 3
        THEN [err |-> NewTranscriptsDisabled(videoID)] @@ none
        ELSE IF ~innertubeData.videoDetails.present
        THEN [err |-> NewYouTubeDataUnparsable(videoID)] @@ none
        ELSE [err |-> NoError,
              videoDetailsJSON |-> [title |-> innertubeData.videoDetails.title],
              captionsJSON |-> innertubeData.captions.json]

\* extractVideoDetailsAndCaptionsJSON
extractVideoDetailsAndCaptionsJSON(innertubeData, videoID) ==
    LET err == assertPlayability(innertubeData, videoID)
        none == [videoDetailsJSON |-> [title |-> Absent], captionsJSON |-> TrivialCaptions]
    IN  IF err # NoError
        THEN [err |-> err] @@ none
        ELSE IF ~innertubeData.videoDetails.present
        THEN [err |-> NewYouTubeDataUnparsable(videoID)] @@ none
        ELSE IF innertubeData.captions.level = 0             \* no captions
        THEN [err |-> NewTranscriptsDisabled(videoID)] @@ none
        ELSE IF innertubeData.captions.level = 1             \* no renderer
        THEN [err |-> NewTranscriptsDisabled(videoID)] @@ none
        ELSE IF innertubeData.captions.level = 2             \* no captionTracks
        THEN [err |-> NewTranscriptsDisabled(videoID)] @@ none
        ELSE [err |-> NoError,
              videoDetailsJSON |-> [title |-> innertubeData.videoDetails.title],
              captionsJSON |-> innertubeData.captions.json]

\* a retry test that takes transcripts-disabled for a blocked request too
IsRequestBlockedOrDisabled(err) == err.kind \in {"RequestBlocked", "TranscriptsDisabled"}

\* the type assertion err.(*RequestBlocked): an *IpBlocked is not a *RequestBlocked
IsRequestBlocked(err) == err.kind = "RequestBlocked"

\* a retry condition that allows one attempt too many
ShouldRetryOneMore(tryNumber, retries) == tryNumber < retries

\* the retry condition of fetchVideoDetailsAndCaptionsJSON
ShouldRetry(tryNumber, retries) == tryNumber + 1 < retries


(* ------------------------------ formatters ---------------------------- *)
\* A float64 number of seconds is a whole number of ticks, TicksPerSecond to
\* the second: the times tried have at most four decimals.  A text is a
\* sequence of characters.
TicksPerSecond == 10000

DigitChars == <<"0", "1", "2", "3", "4", "5", "6", "7", "8", "9">>

\* the decimal digits of n >= 0
RECURSIVE Digits(_)
Digits(n) ==
    IF n < 10 THEN <<DigitChars[n + 1]>>
    ELSE Append(Digits(n \div 10), DigitChars[(n % 10) + 1])

DigitValue(c) == CHOOSE d \in 0 .. 9 : DigitChars[d + 1] = c

\* the number a sequence of decimal digits denotes
RECURSIVE ParseDigits(_)
ParseDigits(ds) ==
    IF ds = <<>> THEN 0
    ELSE 10 * ParseDigits(SubSeq(ds, 1, Len(ds) - 1)) + DigitValue(ds[Len(ds)])

RECURSIVE PadLeft(_, _)
PadLeft(ds, width) == IF Len(ds) >= width THEN ds ELSE PadLeft(<<"0">> \o ds, width)

\* fmt.Sprintf("%0<width>d", n)
SprintfPadded(n, width) ==
    IF n >= 0 THEN PadLeft(Digits(n), width)
    ELSE <<"-">> \o PadLeft(Digits(-n), width - 1)

\* int(x / y) on float64: the quotient truncated toward zero
Trunc(x, y) == IF x >= 0 THEN x \div y ELSE -((-x) \div y)

FetchedTranscriptSnippet(text, start, duration) ==
    [Text |-> text, Start |-> start, Duration |-> duration]

\* the metadata of the transcripts handed to the formatters
FetchedTranscript(snippets) ==
    [Title |-> "Title", ThumbnailURL |-> <<"thumb", "a", "b", "c">>,
     Snippets |-> snippets, VideoID |-> <<"a", "b", "c">>, Language |-> "Name",
     LanguageCode |-> "en", IsGenerated |-> FALSE, isNil |-> FALSE]

\* secondsToTimestamp taking the minutes of the whole time, not of what
\* the hours leave
secondsToTimestampWholeMinutes(time) ==
    LET hours == Trunc(time, 3600 * TicksPerSecond)
        mins == Trunc(time, 60 * TicksPerSecond)
        rest == time - mins * 60 * TicksPerSecond
        secs == Trunc(rest, TicksPerSecond)
        ms == Trunc((rest - secs * TicksPerSecond) * 1000, TicksPerSecond)
    IN  <<hours, mins, secs, ms>>

\* TextBasedFormatter.secondsToTimestamp: <<hours, mins, secs, ms>>
secondsToTimestamp(time) ==
    LET hours == Trunc(time, 3600 * TicksPerSecond)
        remainder == time - hours * 3600 * TicksPerSecond
        mins == Trunc(remainder, 60 * TicksPerSecond)
        rest == remainder - mins * 60 * TicksPerSecond
        secs == Trunc(rest, TicksPerSecond)
        ms == Trunc((rest - secs * TicksPerSecond) * 1000, TicksPerSecond)
    IN  <<hours, mins, secs, ms>>

\* SRTFormatter.formatTimestamp ("," before the milliseconds) and
\* WebVTTFormatter.formatTimestamp (".")
formatTimestamp(separator, ts) ==
    SprintfPadded(ts[1], 2) \o <<":">> \o SprintfPadded(ts[2], 2) \o <<":">>
        \o SprintfPadded(ts[3], 2) \o <<separator>> \o SprintfPadded(ts[4], 3)

\* the end of cue i clamped to the earliest start of all later snippets
cueEndLookingAhead(snippets, i) ==
    LET end == snippets[i].Start + snippets[i].Duration
        later == {snippets[j].Start : j \in i + 1 .. Len(snippets)}
        earlier == {s \in later : s < end}
    IN  IF earlier # {} THEN CHOOSE s \in earlier : \A u \in earlier : s <= u
        ELSE end

\* the end of cue i in the loop of formatTranscript (i counts from 1)
cueEnd(snippets, i) ==
    LET end == snippets[i].Start + snippets[i].Duration
    IN  IF i < Len(snippets) /\ snippets[i + 1].Start < end
        THEN snippets[i + 1].Start
        ELSE end

\* SRTFormatter.formatHelper: number, time line, text
srtFormatHelper(i, timeText, snippet) ==
    [number |-> Digits(i), timeText |-> timeText, text |-> snippet.Text]

\* WebVTTFormatter.formatHelper: time line, text
webvttFormatHelper(i, timeText, snippet) ==
    [number |-> <<>>, timeText |-> timeText, text |-> snippet.Text]

\* TextBasedFormatter.formatTranscript for the formatter named format.  The
\* output is the header line and the cues formatHeader joins.
formatTranscript(format, transcript) ==
    LET snippets == transcript.Snippets
        separator == IF format = "srt" THEN "," ELSE "."
        line(i) ==
            LET timeText ==
                    [from |-> formatTimestamp(separator,
                                  secondsToTimestamp(snippets[i].Start)),
                     to |-> formatTimestamp(separator,
                                  secondsToTimestamp(cueEnd(snippets, i)))]
            IN  IF format = "srt"
                THEN srtFormatHelper(i, timeText, snippets[i])
                ELSE webvttFormatHelper(i, timeText, snippets[i])
    IN  [header |-> IF format = "srt" THEN "" ELSE "WEBVTT",
         lines |-> [i \in 1 .. Len(snippets) |-> line(i)]]

\* ---- encoding/json, as far as the formatters use it ----
\* A JSON text is its sequence of tokens; a string token holds the characters
\* between the quotes, a number token the characters of the numeral.
Tok(t) == [t |-> t, v |-> <<>>]

\* the escaping of one character of a string (HTML escaping is on)
EscapeChar(c) ==
    IF c = "\"" THEN <<"\\", "\"">>
    ELSE IF c = "\\" THEN <<"\\", "\\">>
    ELSE IF c = "<" THEN <<"\\", "u", "0", "0", "3", "c">>
    ELSE <<c>>

RECURSIVE Escape(_)
Escape(s) == IF s = <<>> THEN <<>> ELSE EscapeChar(Head(s)) \o Escape(Tail(s))

\* the decoding of the characters of a string token
RECURSIVE Unescape(_)
Unescape(e) ==
    IF e = <<>> THEN <<>>
    ELSE IF Head(e) # "\\" THEN <<Head(e)>> \o Unescape(Tail(e))
    ELSE IF e[2] = "u"
    THEN (IF SubSeq(e, 3, 6) = <<"0", "0", "3", "c">> THEN <<"<">> ELSE <<"?">>)
            \o Unescape(SubSeq(e, 7, Len(e)))
    ELSE <<e[2]>> \o Unescape(SubSeq(e, 3, Len(e)))

RECURSIVE StripTrailingZeros(_)
StripTrailingZeros(ds) ==
    IF ds # <<>> /\ ds[Len(ds)] = "0"
    THEN StripTrailingZeros(SubSeq(ds, 1, Len(ds) - 1))
    ELSE ds

\* the numeral of a float64: the shortest decimal that reads back the same
FormatFloat(f) ==
    LET a == IF f >= 0 THEN f ELSE -f
        fraction == StripTrailingZeros(PadLeft(Digits(a % TicksPerSecond), 4))
    IN  (IF f < 0 THEN <<"-">> ELSE <<>>)
            \o Digits(a \div TicksPerSecond)
            \o (IF fraction = <<>> THEN <<>> ELSE <<".">> \o fraction)

RECURSIVE PadRight(_, _)
PadRight(ds, width) == IF Len(ds) >= width THEN ds ELSE PadRight(Append(ds, "0"), width)

\* the float64 a numeral denotes
ParseFloat(numeral) ==
    LET negative == numeral[1] = "-"
        body == IF negative THEN Tail(numeral) ELSE numeral
        dots == {i \in 1 .. Len(body) : body[i] = "."}
        dot == IF dots = {} THEN Len(body) + 1 ELSE CHOOSE i \in dots : TRUE
        whole == ParseDigits(SubSeq(body, 1, dot - 1))
        fraction == ParseDigits(PadRight(SubSeq(body, dot + 1, Len(body)), 4))
        a == whole * TicksPerSecond + fraction
    IN  IF negative THEN -a ELSE a

\* Go values handed to json.MarshalIndent
GoString(s) == [type |-> "string", s |-> s]
GoFloat64(f) == [type |-> "float64", f |-> f]
GoMap(m) == [type |-> "map", m |-> m]
GoSlice(items) == [type |-> "slice", isNil |-> FALSE, items |-> items]
GoNilSlice == [type |-> "slice", isNil |-> TRUE, items |-> <<>>]

\* append(slice, item)
GoAppend(slice, item) == GoSlice(Append(slice.items, item))

\* the keys of the maps of ToRawData in the order json writes map keys (sorted)
SortedKeys == <<"duration", "start", "text">>

\* json.MarshalIndent: a nil slice is written null, a map with sorted keys
RECURSIVE Marshal(_)
RECURSIVE MarshalItems(_)
RECURSIVE MarshalMembers(_, _)
Marshal(value) ==
    IF value.type = "string" THEN <<[t |-> "string", v |-> Escape(value.s)]>>
    ELSE IF value.type = "float64" THEN <<[t |-> "number", v |-> FormatFloat(value.f)]>>
    ELSE IF value.type = "map"
    THEN <<Tok("{")>>
            \o MarshalMembers(value.m,
                              SelectSeq(SortedKeys, LAMBDA k : k \in DOMAIN value.m))
            \o <<Tok("}")>>
    ELSE IF value.isNil THEN <<Tok("null")>>
    ELSE <<Tok("[")>> \o MarshalItems(value.items) \o <<Tok("]")>>
MarshalItems(items) ==
    IF items = <<>> THEN <<>>
    ELSE Marshal(Head(items))
            \o (IF Len(items) > 1 THEN <<Tok(",")>> ELSE <<>>)
            \o MarshalItems(Tail(items))
MarshalMembers(m, keys) ==
    IF keys = <<>> THEN <<>>
    ELSE <<[t |-> "string", v |-> <<Head(keys)>>], Tok(":")>>
            \o Marshal(m[Head(keys)])
            \o (IF Len(keys) > 1 THEN <<Tok(",")>> ELSE <<>>)
            \o MarshalMembers(m, Tail(keys))

\* json.Unmarshal into interface{}: the value the tokens from position i on
\* denote, and the position after it
RECURSIVE ParseValue(_, _)
RECURSIVE ParseElements(_, _, _)
RECURSIVE ParseMembers(_, _, _)
ParseValue(toks, i) ==
    LET tok == toks[i]
    IN  IF tok.t = "null" THEN [v |-> [type |-> "null"], next |-> i + 1]
        ELSE IF tok.t = "string"
        THEN [v |-> [type |-> "string", s |-> Unescape(tok.v)], next |-> i + 1]
        ELSE IF tok.t = "number"
        THEN [v |-> [type |-> "number", f |-> ParseFloat(tok.v)], next |-> i + 1]
        ELSE IF tok.t = "["
        THEN IF toks[i + 1].t = "]"
             THEN [v |-> [type |-> "array", items |-> <<>>], next |-> i + 2]
             ELSE ParseElements(toks, i + 1, <<>>)
        ELSE IF toks[i + 1].t = "}"
             THEN [v |-> [type |-> "object", fields |-> EmptyMap], next |-> i + 2]
             ELSE ParseMembers(toks, i + 1, EmptyMap)
ParseElements(toks, i, acc) ==
    LET e == ParseValue(toks, i)
        items == Append(acc, e.v)
    IN  IF toks[e.next].t = ","
        THEN ParseElements(toks, e.next + 1, items)
        ELSE [v |-> [type |-> "array", items |-> items], next |-> e.next + 1]
ParseMembers(toks, i, acc) ==
    LET key == toks[i].v[1]
        e == ParseValue(toks, i + 2)
        fields == Put(acc, key, e.v)
    IN  IF toks[e.next].t = ","
        THEN ParseMembers(toks, e.next + 1, fields)
        ELSE [v |-> [type |-> "object", fields |-> fields], next |-> e.next + 1]

Unmarshal(toks) == ParseValue(toks, 1).v

\* ToRawData leaving out the last snippet
ToRawDataShort(ft) ==
    GoSlice([i \in 1 .. Len(ft.Snippets) - 1 |->
                GoMap([text |-> GoString(ft.Snippets[i].Text),
                       start |-> GoFloat64(ft.Snippets[i].Start),
                       duration |-> GoFloat64(ft.Snippets[i].Duration)])])

\* FetchedTranscript.ToRawData
ToRawData(ft) ==
    GoSlice([i \in 1 .. Len(ft.Snippets) |->
                GoMap([text |-> GoString(ft.Snippets[i].Text),
                       start |-> GoFloat64(ft.Snippets[i].Start),
                       duration |-> GoFloat64(ft.Snippets[i].Duration)])])

\* JSONFormatter.FormatTranscript (json.MarshalIndent fails on no value
\* ToRawData makes of finite numbers)
JSONFormatTranscript(transcript) ==
    [err |-> NoError, output |-> Marshal(ToRawData(transcript))]

\* the loop of FormatTranscripts: data = append(data, transcript.ToRawData())
RECURSIVE AppendRawData(_, _)
AppendRawData(data, transcripts) ==
    IF transcripts = <<>> THEN data
    ELSE AppendRawData(GoAppend(data, ToRawData(Head(transcripts))), Tail(transcripts))

\* JSONFormatter.FormatTranscripts: data starts as the nil slice
JSONFormatTranscripts(transcripts) ==
    [err |-> NoError, output |-> Marshal(AppendRawData(GoNilSlice, transcripts))]

\* PrettyPrintFormatter.FormatTranscript
PrettyFormatTranscript(transcript) ==
    [err |-> NoError, output |-> Marshal(ToRawData(transcript))]

\* PrettyPrintFormatter.FormatTranscripts
PrettyFormatTranscripts(transcripts) ==
    [err |-> NoError, output |-> Marshal(AppendRawData(GoNilSlice, transcripts))]

\* SRTFormatter.FormatTranscript and WebVTTFormatter.FormatTranscript
TimedFormatTranscript(format, transcript) ==
    [err |-> NoError, output |-> formatTranscript(format, transcript)]

\* SRTFormatter.FormatTranscripts and WebVTTFormatter.FormatTranscripts: the
\* sections strings.Join puts together
TimedFormatTranscripts(format, transcripts) ==
    [err |-> NoError,
     output |-> [j \in 1 .. Len(transcripts) |-> formatTranscript(format, transcripts[j])]]

\* FormatterLoader.Load(formatterType).FormatTranscript(transcript)
FormatTranscript(formatterType, transcript) ==
    IF formatterType = "json" THEN JSONFormatTranscript(transcript)
    ELSE IF formatterType = "pretty" THEN PrettyFormatTranscript(transcript)
    ELSE TimedFormatTranscript(formatterType, transcript)

\* FormatterLoader.Load(formatterType).FormatTranscripts(transcripts)
FormatTranscripts(formatterType, transcripts) ==
    IF formatterType = "json" THEN JSONFormatTranscripts(transcripts)
    ELSE IF formatterType = "pretty" THEN PrettyFormatTranscripts(transcripts)
    ELSE TimedFormatTranscripts(formatterType, transcripts)

\* the formatters of FormatterLoader that are modelled
FormatterTypes == {"json", "pretty", "srt", "webvtt"}


(* --------------------------- TranscriptParser ------------------------- *)
LowerChars ==
    <<"a", "b", "c", "d", "e", "f", "g", "h", "i", "j", "k", "l", "m",
      "n", "o", "p", "q", "r", "s", "t", "u", "v", "w", "x", "y", "z">>
UpperChars ==
    <<"A", "B", "C", "D", "E", "F", "G", "H", "I", "J", "K", "L", "M",
      "N", "O", "P", "Q", "R", "S", "T", "U", "V", "W", "X", "Y", "Z">>

\* the classes [a-zA-Z], [a-zA-Z0-9] and \w of the patterns
IsLetter(c) == \E k \in 1 .. 26 : c = LowerChars[k] \/ c = UpperChars[k]
IsAlnum(c) == IsLetter(c) \/ (\E k \in 1 .. 10 : c = DigitChars[k])
IsWordChar(c) == IsAlnum(c) \/ c = "_"

\* strings.ToLower
ToLowerChar(c) ==
    IF \E k \in 1 .. 26 : c = UpperChars[k]
    THEN LowerChars[CHOOSE k \in 1 .. 26 : c = UpperChars[k]]
    ELSE c
ToLower(s) == [k \in 1 .. Len(s) |-> ToLowerChar(s[k])]

\* NewTranscriptParser: the formatting tags
formattingTags ==
    {<<"s", "t", "r", "o", "n", "g">>, <<"e", "m">>, <<"b">>, <<"i">>,
     <<"m", "a", "r", "k">>, <<"s", "m", "a", "l", "l">>, <<"d", "e", "l">>,
     <<"i", "n", "s">>, <<"s", "u", "b">>, <<"s", "u", "p">>}

\* the first position from `from` on that holds c, 0 when there is none
FirstOf(text, from, c) ==
    LET S == {k \in from .. Len(text) : text[k] = c}
    IN  IF S = {} THEN 0 ELSE CHOOSE k \in S : \A l \in S : k <= l

\* removeAllHTMLTags: every leftmost match of <[^>]*> is replaced by ""
RECURSIVE removeAllHTMLTags(_)
removeAllHTMLTags(text) ==
    LET i == FirstOf(text, 1, "<")
        j == IF i = 0 THEN 0 ELSE FirstOf(text, i + 1, ">")
    IN  IF i = 0 \/ j = 0 THEN text
        ELSE SubSeq(text, 1, i - 1) \o removeAllHTMLTags(SubSeq(text, j + 1, Len(text)))

\* the match of (?i)</?([a-zA-Z][a-zA-Z0-9]*)\b[^>]*> that starts at i: its
\* last position (0 when there is no match) and the submatch
MatchTagAt(text, i) ==
    LET n == IF i + 1 <= Len(text) /\ text[i + 1] = "/" THEN i + 2 ELSE i + 1
        runs == {k \in n .. Len(text) : \A l \in n .. k : IsAlnum(text[l])}
        e == IF runs = {} THEN 0 ELSE CHOOSE k \in runs : \A l \in runs : l <= k
        boundary == e = Len(text) \/ ~IsWordChar(text[e + 1])
        j == FirstOf(text, e + 1, ">")
    IN  IF /\ text[i] = "<"
           /\ n <= Len(text)
           /\ IsLetter(text[n])
           /\ boundary
           /\ j # 0
        THEN [end |-> j, name |-> SubSeq(text, n, e)]
        ELSE [end |-> 0, name |-> <<>>]

\* ReplaceAllStringFunc from position i on: a match whose name is a
\* formatting tag is kept, any other match is replaced by ""
RECURSIVE ReplaceTagsFrom(_, _)
ReplaceTagsFrom(text, i) ==
    IF i > Len(text) THEN <<>>
    ELSE LET match == MatchTagAt(text, i)
         IN  IF match.end = 0
             THEN <<text[i]>> \o ReplaceTagsFrom(text, i + 1)
             ELSE (IF ToLower(match.name) \in formattingTags
                   THEN SubSeq(text, i, match.end) ELSE <<>>)
                      \o ReplaceTagsFrom(text, match.end + 1)

\* removeNonFormattingHTMLTags
removeNonFormattingHTMLTags(text) == ReplaceTagsFrom(text, 1)

\* the choice Parse makes between the two
processTags(text, preserveFormatting) ==
    IF ~preserveFormatting THEN removeAllHTMLTags(text)
    ELSE removeNonFormattingHTMLTags(text)

\* html.UnescapeString on a text whose entities are single elements
UnescapeEntity(c) ==
    CASE c = "&lt;" -> "<"
      [] c = "&gt;" -> ">"
      [] c = "&amp;" -> "&"
      [] c = "&#39;" -> "'"
      [] c = "&quot;" -> "\""
      [] OTHER -> c
UnescapeString(text) == [k \in 1 .. Len(text) |-> UnescapeEntity(text[k])]

IsDigit(c) == \E k \in 1 .. 10 : c = DigitChars[k]

\* the last position of the run of digits that starts at position from
\* (from - 1 when there is no digit there)
DigitsEnd(s, from) ==
    LET runs == {k \in from .. Len(s) : \A l \in from .. k : IsDigit(s[l])}
    IN  IF runs = {} THEN from - 1 ELSE CHOOSE k \in runs : \A l \in runs : l <= k

\* the token fmt reads for %f: a sign, digits, a point, digits, from the
\* start of the text; what follows the token is left unread
floatToken(s) ==
    LET afterSign == IF Len(s) >= 1 /\ s[1] = "-" THEN 2 ELSE 1
        whole == DigitsEnd(s, afterSign)
        afterPoint == IF whole + 1 <= Len(s) /\ s[whole + 1] = "." THEN whole + 2
                      ELSE whole + 1
        last == IF afterPoint = whole + 2 THEN DigitsEnd(s, afterPoint) ELSE whole
    IN  SubSeq(s, 1, last)

\* fmt.Sscanf(s, "%f", &f) on f = 0, the error dropped: f afterwards
Sscanf(s) ==
    LET token == floatToken(s)
    IN  IF \E k \in 1 .. Len(token) : IsDigit(token[k]) THEN ParseFloat(token) ELSE 0

\* element.SelectAttrValue(key, "0.0")
SelectAttrValue(attr) == IF ~attr.has THEN <<"0", ".", "0">> ELSE attr.value

\* the loop of Parse over root.ChildElements()
RECURSIVE ParseChildElements(_, _)
ParseChildElements(elements, preserveFormatting) ==
    IF elements = <<>> THEN <<>>
    ELSE LET element == Head(elements)
             rest == ParseChildElements(Tail(elements), preserveFormatting)
             start == Sscanf(SelectAttrValue(element.start))
             duration == Sscanf(SelectAttrValue(element.dur))
             text == processTags(UnescapeString(element.Text), preserveFormatting)
         IN  IF element.Tag # "text" \/ element.Text = <<>> THEN rest
             ELSE <<FetchedTranscriptSnippet(text, start, duration)>> \o rest

\* TranscriptParser.Parse of a document: one that etree cannot read, one
\* without a root, or a root with its child elements
ParseDocument(doc, preserveFormatting) ==
    IF ~doc.wellFormed THEN [err |-> TRUE, snippets |-> <<>>]
    ELSE IF ~doc.hasRoot THEN [err |-> TRUE, snippets |-> <<>>]
    ELSE [err |-> FALSE, snippets |-> ParseChildElements(doc.children, preserveFormatting)]

(* --------------------------- Transcript.Fetch ------------------------- *)
\* the experiment marker of a url that needs a PO token
ExpMarker == "&exp=xpe"

\* strings.Contains(url, part) for a part of a url
Contains(url, part) == \E i \in 1 .. Len(url) : url[i] = part

\* Transcript.Fetch looking for the marker at the end of the url only
requiresPoTokenAtEnd(t) == t.url # <<>> /\ t.url[Len(t.url)] = ExpMarker

\* the test Transcript.Fetch starts with
requiresPoToken(t) == Contains(t.url, ExpMarker)

\* a timed-text body: whether it can be read, whether it is an XML document
\* with a root, and the snippets its text elements give
TrackBodies ==
    [readable : {TRUE}, parsable : {TRUE},
     snippets : {<<>>, <<FetchedTranscriptSnippet(<<"h", "i">>, 0, 15000)>>}]
        \cup [readable : BOOLEAN, parsable : {FALSE}, snippets : {<<>>}]

\* a response of httpClient.Get on the url of a handle, or an error of the Get
TrackResponses ==
    [transportErr : {FALSE}, status : Statuses, body : TrackBodies]
        \cup [transportErr : {TRUE}, status : {0},
              body : {[readable |-> FALSE, parsable |-> FALSE, snippets |-> <<>>]}]

\* TranscriptParser.Parse, given what the document holds
Parse(body) ==
    IF ~body.parsable THEN [err |-> TRUE, snippets |-> <<>>]
    ELSE [err |-> FALSE, snippets |-> body.snippets]

\* Transcript.Fetch on the handle t, given the response its GET would get.
\* get tells whether the GET is issued; ft is the *FetchedTranscript returned.
Fetch(t, resp, preserveFormatting) ==
    IF requiresPoToken(t)
    THEN [get |-> FALSE, err |-> NewPoTokenRequired(t.VideoID), ft |-> NoFetched]
    ELSE IF resp.transportErr
    THEN [get |-> TRUE, err |-> NewYouTubeRequestFailed(t.VideoID, <<"transport">>),
          ft |-> NoFetched]
    ELSE IF raiseHTTPErrors(resp.status, t.VideoID) # NoError
    THEN [get |-> TRUE, err |-> raiseHTTPErrors(resp.status, t.VideoID), ft |-> NoFetched]
    ELSE IF ~resp.body.readable
    THEN [get |-> TRUE, err |-> NewYouTubeRequestFailed(t.VideoID, <<"read">>),
          ft |-> NoFetched]
    ELSE IF Parse(resp.body).err
    THEN [get |-> TRUE, err |-> NewYouTubeRequestFailed(t.VideoID, <<"parse">>),
          ft |-> NoFetched]
    ELSE [get |-> TRUE, err |-> NoError,
          ft |-> [Title |-> t.Title, ThumbnailURL |-> t.ThumbnailURL,
                  Snippets |-> Parse(resp.body).snippets, VideoID |-> t.VideoID,
                  Language |-> t.Language, LanguageCode |-> t.LanguageCode,
                  IsGenerated |-> t.IsGenerated, isNil |-> FALSE]]


(* ------------------------------- state -------------------------------- *)
VARIABLES
    pc,            \* where the List call is: "idle", "page", "consent", "player", "done"
    videoID,       \* the argument of the List call
    proxyConfig,   \* TranscriptListFetcher.proxyConfig
    tryNumber,     \* the tryNumber of the running fetchVideoDetailsAndCaptionsJSON
    attempts,      \* calls of fetchVideoDetailsAndCaptionsJSON made by this List call
    stages,        \* the stages the running attempt has executed, in order
    failures,      \* the error each failed attempt of this List call ended with
    sleeps,        \* the seconds of each time.Sleep of this List call
    cookies,       \* httpClient.Jar
    html,          \* the html of fetchVideoHTML: the body of the last page GET
    result,        \* what List returned
    heap,          \* the Transcript objects, by address
    tl,            \* the TranscriptList List returned
    origin,        \* per address: the handle Translate derived it from, 0 if none
    lastCall,      \* the last Find* / Translate call and what it returned
    arg,           \* the argument of a function applied on its own
    out,           \* what that function returned
    fetching,      \* the handle whose Transcript.Fetch awaits its GET, 0 if none
    gets,          \* the urls Transcript.Fetch has requested, in order
    fetched        \* the FetchedTranscript the last Transcript.Fetch returned

vars == <<pc, videoID, proxyConfig, tryNumber, attempts, stages, failures, sleeps,
          cookies, html, result, heap, tl, origin, lastCall, arg, out,
          fetching, gets, fetched>>

catalogVars == <<heap, tl, origin, lastCall>>
listVars == <<pc, videoID, proxyConfig, tryNumber, attempts, stages, failures,
              sleeps, cookies, html, result>>
pureVars == <<arg, out>>
trackVars == <<fetching, gets, fetched>>

NilList == NewTranscriptList(<<>>, EmptyMap, EmptyMap, <<>>)
NoCall ==
    [op |-> "none", recv |-> NilAddr, codes |-> <<>>, target |-> "",
     err |-> NoError, ret |-> NilAddr]
NoResult == [err |-> NoError, hasList |-> FALSE, panic |-> FALSE]
NoArg == [videoID |-> <<>>]
NoOut == [done |-> FALSE]

(* ------------------------------ List call ----------------------------- *)
\* a pause that doubles the seconds
SleepTwiceAsLong(attemptIndex) == 2 * (attemptIndex + 1)

\* the seconds of time.Sleep before the attempt after attempt attemptIndex
SleepSeconds(attemptIndex) == attemptIndex + 1

\* NewYouTubeTranscriptApi(proxyConfig): nothing has been called yet
Init ==
    /\ pc = "idle"
    /\ videoID = <<>>
    /\ proxyConfig \in ProxyConfigs
    /\ tryNumber = 0
    /\ attempts = 0
    /\ stages = <<>>
    /\ failures = <<>>
    /\ sleeps = <<>>
    /\ cookies = {}
    /\ html = EmptyBody
    /\ result = NoResult
    /\ heap = <<>>
    /\ tl = NilList
    /\ origin = <<>>
    /\ lastCall = NoCall
    /\ arg = NoArg
    /\ out = NoOut
    /\ fetching = NilAddr
    /\ gets = <<>>
    /\ fetched = NoFetched

\* List noting the failure of the page fetch or of the key extraction and
\* going on to the POST
ReturnErrorAndGoOn(err) ==
    /\ pc' = IF pc = "page" THEN "player" ELSE "done"
    /\ result' = [err |-> err, hasList |-> FALSE, panic |-> FALSE]
    /\ failures' = Append(failures, err)
    /\ UNCHANGED <<videoID, proxyConfig, tryNumber, attempts, sleeps, catalogVars,
                   pureVars, trackVars>>

\* List returns err
ReturnError(err) ==
    /\ pc' = "done"
    /\ result' = [err |-> err, hasList |-> FALSE, panic |-> FALSE]
    /\ failures' = Append(failures, err)
    /\ UNCHANGED <<videoID, proxyConfig, tryNumber, attempts, sleeps, catalogVars,
                   pureVars, trackVars>>

\* api.List(v) is called and reaches the first GET of the page
ListCall ==
    /\ pc \in {"idle", "done"}
    /\ \E v \in VideoIDs : videoID' = v
    /\ pc' = "page"
    /\ tryNumber' = 0
    /\ attempts' = 1
    /\ stages' = <<>>
    /\ failures' = <<>>
    /\ sleeps' = <<>>
    /\ result' = NoResult
    /\ heap' = <<>>
    /\ tl' = NilList
    /\ origin' = <<>>
    /\ lastCall' = NoCall
    /\ html' = EmptyBody
    /\ UNCHANGED <<proxyConfig, cookies, pureVars, trackVars>>

\* the rest of fetchVideoDetailsAndCaptionsJSON once fetchVideoHTML returned body
AfterVideoHTML(body, done) ==
    LET key == extractInnertubeAPIKey(body, videoID)
    IN  /\ stages' = done \o <<"key">>
        /\ IF key.err # NoError
           THEN ReturnError(key.err)
           ELSE /\ pc' = "player"
                /\ UNCHANGED <<videoID, proxyConfig, tryNumber, attempts, failures,
                               sleeps, result, catalogVars, pureVars, trackVars>>

\* fetchVideoHTML: the first GET of the page answers
PageResponse ==
    /\ pc = "page"
    /\ \E resp \in PageResponses :
        LET r == fetchHTML(resp, videoID)
            done == Append(stages, "page")
        IN  /\ html' = r.html
            /\ IF r.err # NoError
               THEN /\ stages' = done
                    /\ cookies' = cookies
                    /\ ReturnError(r.err)
               ELSE IF r.html.consent
               THEN LET c == createConsentCookie(r.html, videoID)
                    IN  /\ stages' = done
                        /\ cookies' = cookies \cup c.cookies
                        /\ IF c.err # NoError
                           THEN ReturnError(c.err)
                           ELSE /\ pc' = "consent"
                                /\ UNCHANGED <<videoID, proxyConfig, tryNumber, attempts,
                                               failures, sleeps, result, catalogVars,
                                               pureVars, trackVars>>
               ELSE /\ cookies' = cookies
                    /\ AfterVideoHTML(r.html, done)

\* fetchVideoHTML: the GET repeated after the consent cookie was set answers
ConsentResponse ==
    /\ pc = "consent"
    /\ cookies' = cookies
    /\ \E resp \in PageResponses :
        LET r == fetchHTML(resp, videoID)
            done == Append(stages, "page")
            again == consentAfterRefetch(r.html, videoID)
        IN  /\ html' = r.html
            /\ IF r.err # NoError
               THEN /\ stages' = done
                    /\ ReturnError(r.err)
               ELSE IF again # NoError
               THEN /\ stages' = done
                    /\ ReturnError(again)
               ELSE AfterVideoHTML(r.html, done)

\* fetchInnertubeData answers; extraction, the retry decision and
\* BuildTranscriptList follow
PlayerResponse ==
    /\ pc = "player"
    /\ UNCHANGED <<cookies, html>>
    /\ \E resp \in PlayerResponses :
        LET r == fetchInnertubeData(resp, videoID)
            e == extractVideoDetailsAndCaptionsJSON(r.data, videoID)
            playable == assertPlayability(r.data, videoID) = NoError
            done == stages \o (IF r.err # NoError THEN <<"player">>
                               ELSE IF ~playable THEN <<"player", "playability">>
                               ELSE <<"player", "playability", "captions">>)
            retries == IF proxyConfig # NilProxyConfig
                       THEN RetriesWhenBlocked(proxyConfig) ELSE 0
            built == BuildTranscriptList(videoID, e.videoDetailsJSON, e.captionsJSON)
        IN  IF r.err # NoError
            THEN /\ stages' = done
                 /\ ReturnError(r.err)
            ELSE IF e.err # NoError
            THEN IF IsRequestBlocked(e.err)
                 THEN IF ShouldRetry(tryNumber, retries)
                      THEN /\ sleeps' = Append(sleeps, SleepSeconds(tryNumber))
                           /\ failures' = Append(failures, e.err)
                           /\ tryNumber' = tryNumber + 1
                           /\ attempts' = attempts + 1
                           /\ stages' = <<>>
                           /\ pc' = "page"
                           /\ UNCHANGED <<videoID, proxyConfig, result, catalogVars,
                                          pureVars, trackVars>>
                      ELSE /\ stages' = done
                           /\ ReturnError(WithProxyConfig(e.err, proxyConfig))
                 ELSE /\ stages' = done
                      /\ ReturnError(e.err)
            ELSE /\ stages' = Append(done, "build")
                 /\ pc' = "done"
                 /\ UNCHANGED <<videoID, proxyConfig, tryNumber, attempts, failures,
                                sleeps, lastCall, pureVars, trackVars>>
                 /\ IF built.panic
                    THEN /\ result' = [err |-> NoError, hasList |-> FALSE, panic |-> TRUE]
                         /\ UNCHANGED <<heap, tl, origin>>
                    ELSE /\ result' = [err |-> NoError, hasList |-> TRUE, panic |-> FALSE]
                         /\ heap' = built.heap
                         /\ tl' = built.tl
                         /\ origin' = [a \in 1 .. Len(built.heap) |-> 0]

Next ==
    \/ ListCall
    \/ PageResponse
    \/ ConsentResponse
    \/ PlayerResponse

Spec == Init /\ [][Next]_vars


(* --------------------------- catalog queries -------------------------- *)
PreferredCodes == LanguageCodes \cup {"xx"}
CatalogVideoID == <<"a", "b", "c">>

\* the state after List returned the catalog BuildTranscriptList made of
\* captionsJSON and of a videoDetails with a title
AfterList(captionsJSON) ==
    /\ pc = "done"
    /\ videoID = CatalogVideoID
    /\ proxyConfig = NilProxyConfig
    /\ tryNumber = 0
    /\ attempts = 1
    /\ stages = <<"page", "key", "player", "playability", "captions", "build">>
    /\ failures = <<>>
    /\ sleeps = <<>>
    /\ cookies = {}
    /\ html = [consent |-> FALSE, hasV |-> FALSE, hasKey |-> TRUE, captcha |-> FALSE]
    /\ result = [err |-> NoError, hasList |-> TRUE, panic |-> FALSE]
    /\ LET built == BuildTranscriptList(CatalogVideoID, [title |-> "Title"], captionsJSON)
       IN  /\ heap = built.heap
           /\ tl = built.tl
           /\ origin = [a \in 1 .. Len(built.heap) |-> 0]
    /\ lastCall = NoCall
    /\ arg = NoArg
    /\ out = NoOut
    /\ fetching = NilAddr
    /\ gets = <<>>
    /\ fetched = NoFetched

InitFind == \E captionsJSON \in FindCaptionsJSONs : AfterList(captionsJSON)

FindCall(op, r, languageCodes) ==
    /\ lastCall' = [op |-> op, recv |-> NilAddr, codes |-> languageCodes, target |-> "",
                    err |-> r.err, ret |-> r.ret]
    /\ UNCHANGED <<listVars, heap, tl, origin, pureVars, trackVars>>

\* tl.FindTranscript(languageCodes)
CallFindTranscript ==
    /\ result.hasList
    /\ \E languageCodes \in SeqsUpTo(PreferredCodes, MaxCodes) :
        FindCall("FindTranscript", FindTranscript(tl, languageCodes), languageCodes)

\* tl.FindManuallyCreatedTranscript(languageCodes)
CallFindManuallyCreatedTranscript ==
    /\ result.hasList
    /\ \E languageCodes \in SeqsUpTo(PreferredCodes, MaxCodes) :
        FindCall("FindManuallyCreatedTranscript",
                 FindManuallyCreatedTranscript(tl, languageCodes), languageCodes)

\* tl.FindGeneratedTranscript(languageCodes)
CallFindGeneratedTranscript ==
    /\ result.hasList
    /\ \E languageCodes \in SeqsUpTo(PreferredCodes, MaxCodes) :
        FindCall("FindGeneratedTranscript",
                 FindGeneratedTranscript(tl, languageCodes), languageCodes)

NextFind ==
    \/ CallFindTranscript
    \/ CallFindManuallyCreatedTranscript
    \/ CallFindGeneratedTranscript

SpecFind == InitFind /\ [][NextFind]_vars

(* ------------------------------ Translate ----------------------------- *)
InitTranslate == \E captionsJSON \in TranslateCaptionsJSONs : AfterList(captionsJSON)

\* the handles Translate has created
Derived == {a \in 1 .. Len(heap) : origin[a] # 0}

\* t.Translate(languageCode) on a handle of the catalog or on a handle an
\* earlier Translate returned
CallTranslate ==
    /\ result.hasList
    /\ \E a \in 1 .. Len(heap), languageCode \in TargetCodes :
        LET r == Translate(heap, a, languageCode)
        IN  /\ Len(r.heap) > Len(heap) => Cardinality(Derived) < MaxDerived
            /\ heap' = r.heap
            /\ origin' = IF Len(r.heap) > Len(heap) THEN Append(origin, a) ELSE origin
            /\ lastCall' = [op |-> "Translate", recv |-> a, codes |-> <<>>,
                            target |-> languageCode, err |-> r.err, ret |-> r.ret]
            /\ UNCHANGED <<listVars, tl, pureVars, trackVars>>

NextTranslate == CallTranslate

SpecTranslate == InitTranslate /\ [][NextTranslate]_vars

(* ---------------------- extraction, on its own ------------------------ *)
\* no List call is running; a decoded player response and a video id are given
InitExtract ==
    /\ pc = "idle"
    /\ videoID = <<>>
    /\ proxyConfig = NilProxyConfig
    /\ tryNumber = 0
    /\ attempts = 0
    /\ stages = <<>>
    /\ failures = <<>>
    /\ sleeps = <<>>
    /\ cookies = {}
    /\ html = EmptyBody
    /\ result = NoResult
    /\ heap = <<>>
    /\ tl = NilList
    /\ origin = <<>>
    /\ lastCall = NoCall
    /\ arg \in [innertubeData : InnertubeDatas, videoID : VideoIDs]
    /\ out = NoOut
    /\ fetching = NilAddr
    /\ gets = <<>>
    /\ fetched = NoFetched

\* assertPlayability and extractVideoDetailsAndCaptionsJSON are applied
Extract ==
    /\ ~out.done
    /\ out' = [done |-> TRUE,
               playability |-> assertPlayability(arg.innertubeData, arg.videoID),
               extracted |-> extractVideoDetailsAndCaptionsJSON(arg.innertubeData,
                                                                arg.videoID)]
    /\ UNCHANGED <<listVars, catalogVars, arg, trackVars>>

NextExtract == Extract

SpecExtract == InitExtract /\ [][NextExtract]_vars

(* ----------------------- formatters, on their own --------------------- *)
\* no call is running and nothing has been returned
Standalone ==
    /\ pc = "idle"
    /\ videoID = <<>>
    /\ proxyConfig = NilProxyConfig
    /\ tryNumber = 0
    /\ attempts = 0
    /\ stages = <<>>
    /\ failures = <<>>
    /\ sleeps = <<>>
    /\ cookies = {}
    /\ html = EmptyBody
    /\ result = NoResult
    /\ heap = <<>>
    /\ tl = NilList
    /\ origin = <<>>
    /\ lastCall = NoCall
    /\ out = NoOut
    /\ fetching = NilAddr
    /\ gets = <<>>
    /\ fetched = NoFetched

\* the fractions of a second tried, in ticks
Fractions == {0, 4, 5, 1234, 5000, 9995, 9996, 9999}

\* the non-negative times tried
Times ==
    {((h * 60 + m) * 60 + s) * TicksPerSecond + f :
        h \in 0 .. MaxHours, m \in {0, 59}, s \in {0, 59}, f \in Fractions}

InitTimestamp ==
    /\ Standalone
    /\ arg \in [time : Times]

\* f.secondsToTimestamp(time)
CallSecondsToTimestamp ==
    /\ ~out.done
    /\ out' = [done |-> TRUE, timestamp |-> secondsToTimestamp(arg.time)]
    /\ UNCHANGED <<listVars, catalogVars, arg, trackVars>>

NextTimestamp == CallSecondsToTimestamp

SpecTimestamp == InitTimestamp /\ [][NextTimestamp]_vars

\* the snippets of the transcripts handed to the formatters: overlapping,
\* touching, separated and unsorted cues are among their sequences
Snippets ==
    {FetchedTranscriptSnippet(<<"h", "i">>, start, duration) :
        start \in {0, TicksPerSecond, 2 * TicksPerSecond},
        duration \in {TicksPerSecond, 3 * TicksPerSecond}}
      \cup {FetchedTranscriptSnippet(<<"a", "<", "\"", "\\">>, 15004, 9996)}

\* the transcripts of the lists handed to FormatTranscripts
ShortTranscripts ==
    {FetchedTranscript(snippets) :
        snippets \in SeqsUpTo({FetchedTranscriptSnippet(<<"h", "i">>, 0, 15000),
                               FetchedTranscriptSnippet(<<"<">>, 12500, 5000)}, 1)}

TranscriptLists ==
    {<<FetchedTranscript(snippets)>> : snippets \in SeqsUpTo(Snippets, MaxSnippets)}
        \cup SeqsUpTo(ShortTranscripts, MaxTranscripts)

InitFormat ==
    /\ Standalone
    /\ arg \in [transcripts : TranscriptLists]

\* formatter.FormatTranscript(transcript) on one transcript of the list
CallFormatTranscript ==
    \E formatterType \in FormatterTypes, j \in 1 .. Len(arg.transcripts) :
        LET r == FormatTranscript(formatterType, arg.transcripts[j])
        IN  /\ out' = [done |-> TRUE, call |-> "FormatTranscript",
                       formatterType |-> formatterType, index |-> j,
                       err |-> r.err, output |-> r.output]
            /\ UNCHANGED <<listVars, catalogVars, arg, trackVars>>

\* formatter.FormatTranscripts(transcripts) on the whole list
CallFormatTranscripts ==
    \E formatterType \in FormatterTypes :
        LET r == FormatTranscripts(formatterType, arg.transcripts)
        IN  /\ out' = [done |-> TRUE, call |-> "FormatTranscripts",
                       formatterType |-> formatterType, index |-> 0,
                       err |-> r.err, output |-> r.output]
            /\ UNCHANGED <<listVars, catalogVars, arg, trackVars>>

NextFormat ==
    \/ CallFormatTranscript
    \/ CallFormatTranscripts

SpecFormat == InitFormat /\ [][NextFormat]_vars

(* -------------------------------- Fetch ------------------------------- *)
\* the tracks of the catalogs whose handles are fetched: with and without the
\* experiment marker in the url
FetchTracks ==
    {Track("en", Absent, <<"u", "&fmt=srv3">>, TRUE),
     Track("en", "asr", <<"u", "&exp=xpe">>, TRUE),
     Track("zh", Absent, <<"u", "&exp=xpe", "&fmt=srv3">>, FALSE)}
FetchCaptionsJSONs ==
    [translationLanguages : {<<[languageCode |-> "es", text |-> "Spanish"]>>},
     captionTracks : SeqsUpTo(FetchTracks, MaxFetchTracks)]

InitFetch == \E captionsJSON \in FetchCaptionsJSONs : AfterList(captionsJSON)

\* t.Fetch(preserveFormatting) is called on a handle: it returns at once for
\* a url with the marker, and otherwise issues its GET
CallFetch ==
    /\ result.hasList
    /\ fetching = NilAddr
    /\ \E a \in 1 .. Len(heap), resp \in TrackResponses, preserveFormatting \in BOOLEAN :
        LET r == Fetch(heap[a], resp, preserveFormatting)
        IN  IF ~r.get
            THEN /\ lastCall' = [op |-> "Fetch", recv |-> a, codes |-> <<>>, target |-> "",
                                 err |-> r.err, ret |-> NilAddr]
                 /\ fetched' = r.ft
                 /\ UNCHANGED <<fetching, gets>>
            ELSE /\ Len(gets) < MaxFetches
                 /\ gets' = Append(gets, heap[a].url)
                 /\ fetching' = a
                 /\ lastCall' = [op |-> "Fetch", recv |-> a, codes |-> <<>>, target |-> "",
                                 err |-> NoError, ret |-> NilAddr]
                 /\ fetched' = NoFetched
    /\ UNCHANGED <<listVars, heap, tl, origin, pureVars>>

\* the GET of the running Fetch answers and Fetch returns
TrackResponse ==
    /\ fetching # NilAddr
    /\ \E resp \in TrackResponses, preserveFormatting \in BOOLEAN :
        LET r == Fetch(heap[fetching], resp, preserveFormatting)
        IN  /\ lastCall' = [lastCall EXCEPT !.err = r.err]
            /\ fetched' = r.ft
    /\ fetching' = NilAddr
    /\ UNCHANGED <<listVars, heap, tl, origin, pureVars, gets>>

\* t.Translate(languageCode) while no Fetch is running
TranslateBetweenFetches ==
    /\ fetching = NilAddr
    /\ CallTranslate

NextFetch ==
    \/ CallFetch
    \/ TrackResponse
    \/ TranslateBetweenFetches

SpecFetch == InitFetch /\ [][NextFetch]_vars

(* ---------------------- the three requests, on their own -------------- *)
\* the handle whose url the per-track GET is sent to
PlainHandle ==
    NewTranscript(CatalogVideoID, "Title", ThumbnailURL(CatalogVideoID), <<"u">>,
                  "Name", "en", FALSE, <<>>)

\* a request of the pipeline and a response to it
Exchanges ==
    [request : {"page"}, resp : PageResponses]
        \cup [request : {"player"},
              resp : {r \in PlayerResponses : r.data = EmptyInnertubeData}]
        \cup [request : {"track"}, resp : TrackResponses]

InitExchange ==
    /\ Standalone
    /\ arg \in Exchanges

\* the stage that sent the request handles the response: fetchHTML,
\* fetchInnertubeData or Transcript.Fetch
HandleResponse ==
    /\ ~out.done
    /\ out' = IF arg.request = "page"
              THEN LET r == fetchHTML(arg.resp, CatalogVideoID)
                   IN  [done |-> TRUE, err |-> r.err, value |-> r.html]
              ELSE IF arg.request = "player"
              THEN LET r == fetchInnertubeData(arg.resp, CatalogVideoID)
                   IN  [done |-> TRUE, err |-> r.err, value |-> r.data]
              ELSE LET r == Fetch(PlainHandle, arg.resp, FALSE)
                   IN  [done |-> TRUE, err |-> r.err, value |-> r.ft]
    /\ UNCHANGED <<listVars, catalogVars, arg, trackVars>>

NextExchange == HandleResponse

SpecExchange == InitExchange /\ [][NextExchange]_vars

(* ------------------------ error messages, on their own ---------------- *)
\* the errors the constructors make
ErrorValues ==
    {NewYouTubeDataUnparsable(v) : v \in VideoIDs}
      \cup {NewYouTubeRequestFailed(v, r) : v \in VideoIDs, r \in {<<"transport">>, <<"HTTP", 404>>}}
      \cup {NewVideoUnplayable(v, r, s) :
              v \in VideoIDs, r \in {"", "Private video"}, s \in {<<>>, <<"sub1">>}}
      \cup {NewVideoUnavailable(v) : v \in VideoIDs}
      \cup {NewInvalidVideoId(v) : v \in VideoIDs}
      \cup {NewRequestBlocked(v) : v \in VideoIDs}
      \cup {WithProxyConfig(NewRequestBlocked(v), p) : v \in VideoIDs, p \in ProxyConfigs}
      \cup {NewIpBlocked(v) : v \in VideoIDs}
      \cup {NewTranscriptsDisabled(v) : v \in VideoIDs}
      \cup {NewAgeRestricted(v) : v \in VideoIDs}
      \cup {NewNotTranslatable(v) : v \in VideoIDs}
      \cup {NewTranslationLanguageNotAvailable(v) : v \in VideoIDs}
      \cup {NewFailedToCreateConsentCookie(v) : v \in VideoIDs}
      \cup {NewNoTranscriptFound(v, c, NewTranscriptList(v, EmptyMap, EmptyMap, <<>>)) :
              v \in VideoIDs, c \in {<<>>, <<"en">>}}
      \cup {NewPoTokenRequired(v) : v \in VideoIDs}

InitErrors ==
    /\ Standalone
    /\ arg \in [err : ErrorValues]

\* err.Error() and err.Cause() are called on the error
CallError ==
    /\ ~out.done
    /\ out' = [done |-> TRUE, message |-> Error(arg.err), cause |-> Cause(arg.err)]
    /\ UNCHANGED <<listVars, catalogVars, arg, trackVars>>

NextErrors == CallError

SpecErrors == InitErrors /\ [][NextErrors]_vars

(* ------------------ BuildTranscriptList, on its own ------------------- *)
InitBuild ==
    /\ Standalone
    /\ arg \in [videoDetailsJSON : VideoDetailsJSONs, captionsJSON : FindCaptionsJSONs]

\* BuildTranscriptList(httpClient, videoID, videoDetailsJSON, captionsJSON)
CallBuildTranscriptList ==
    /\ ~out.done
    /\ LET built == BuildTranscriptList(CatalogVideoID, arg.videoDetailsJSON,
                                        arg.captionsJSON)
       IN  out' = [done |-> TRUE, panic |-> built.panic, heap |-> built.heap,
                   tl |-> built.tl]
    /\ UNCHANGED <<listVars, catalogVars, arg, trackVars>>

NextBuild == CallBuildTranscriptList

SpecBuild == InitBuild /\ [][NextBuild]_vars

(* -------------------- text processing, on its own --------------------- *)
\* the characters of the snippet texts tried, after html.UnescapeString
TagChars == {"<", ">", "/", "b", "B", "_", " "}

InitTags ==
    /\ Standalone
    /\ arg \in [text : SeqsUpTo(TagChars, MaxTextLen), preserveFormatting : BOOLEAN]

\* the tags of the unescaped text are removed
CallProcessTags ==
    /\ ~out.done
    /\ out' = [done |-> TRUE, text |-> processTags(arg.text, arg.preserveFormatting)]
    /\ UNCHANGED <<listVars, catalogVars, arg, trackVars>>

NextTags == CallProcessTags

SpecTags == InitTags /\ [][NextTags]_vars

(* ---------------------- the parser, on its own ------------------------ *)
\* the attribute values tried: none, a number, no number, a number followed
\* by something else
NoAttr == [has |-> FALSE, value |-> <<>>]
Attr(value) == [has |-> TRUE, value |-> value]
StartValues == {NoAttr, Attr(<<"1", ".", "5">>), Attr(<<"x">>), Attr(<<"2", "x">>)}
DurValues == {Attr(<<"1">>), Attr(<<"x">>)}
ElementTexts == {<<>>, <<"a", "&lt;", "b", "&gt;">>}

\* the child elements of the root
ChildElements ==
    [Tag : {"text", "p"}, Text : ElementTexts, start : StartValues, dur : DurValues]

Documents ==
    [wellFormed : {TRUE}, hasRoot : {TRUE}, children : SeqsUpTo(ChildElements, MaxElements)]
        \cup {[wellFormed |-> FALSE, hasRoot |-> FALSE, children |-> <<>>],
              [wellFormed |-> TRUE, hasRoot |-> FALSE, children |-> <<>>]}

InitParse ==
    /\ Standalone
    /\ arg \in [doc : Documents, preserveFormatting : BOOLEAN]

\* NewTranscriptParser(preserveFormatting).Parse(rawData)
CallParse ==
    /\ ~out.done
    /\ LET r == ParseDocument(arg.doc, arg.preserveFormatting)
       IN  out' = [done |-> TRUE, err |-> r.err, snippets |-> r.snippets]
    /\ UNCHANGED <<listVars, catalogVars, arg, trackVars>>

NextParse == CallParse

SpecParse == InitParse /\ [][NextParse]_vars

(* ------------------------- the catalog summary ------------------------ *)
InitString == \E captionsJSON \in FindCaptionsJSONs : AfterList(captionsJSON)

\* the renderings of the catalog made so far
Renderings == IF out.done THEN out.texts ELSE <<>>

\* tl.String() is called
CallString ==
    /\ result.hasList
    /\ Len(Renderings) < MaxRenderings
    /\ \E manualOrder \in IterationOrders(tl.manuallyCreatedTranscripts),
          generatedOrder \in IterationOrders(tl.generatedTranscripts) :
            out' = [done |-> TRUE,
                    texts |-> Append(Renderings,
                                     String(heap, tl, manualOrder, generatedOrder))]
    /\ UNCHANGED <<listVars, catalogVars, arg, trackVars>>

NextString == CallString

SpecString == InitString /\ [][NextString]_vars

(* --------------------- ProxyConfig, on its own ------------------------ *)
ProxyURLs == {"", "http://h:1", "socks5://s:2"}
Usernames == {"", "user"}
Passwords == {"", "secret"}
Locations == {<<>>, <<"de">>, <<"de", "us">>}
DomainNames == {"", "proxy.example"}
ProxyPorts == {0, 8080}

\* the calls of the two constructors
ConstructorCalls ==
    [ctor : {"NewGenericProxyConfig"}, httpURL : ProxyURLs, httpsURL : ProxyURLs]
        \cup [ctor : {"NewWebshareProxyConfig"}, proxyUsername : Usernames,
              proxyPassword : Passwords, filterIPLocations : Locations,
              retriesWhenBlocked : -1 .. MaxRetries, domainName : DomainNames,
              proxyPort : ProxyPorts]

InitProxy ==
    /\ Standalone
    /\ arg \in ConstructorCalls

\* the constructor is called
CallConstructor ==
    /\ ~out.done
    /\ LET r == IF arg.ctor = "NewGenericProxyConfig"
                THEN NewGenericProxyConfig(arg.httpURL, arg.httpsURL)
                ELSE NewWebshareProxyConfig(arg.proxyUsername, arg.proxyPassword,
                                            arg.filterIPLocations, arg.retriesWhenBlocked,
                                            arg.domainName, arg.proxyPort)
       IN  out' = [done |-> TRUE, asked |-> FALSE, config |-> r.config, err |-> r.err]
    /\ UNCHANGED <<listVars, catalogVars, arg, trackVars>>

\* the three methods of the interface are called on the configuration made
CallMethods ==
    /\ out.done
    /\ ~out.asked
    /\ out.config # NilConfig
    /\ out' = [done |-> TRUE, asked |-> TRUE, config |-> out.config, err |-> out.err,
               urls |-> ToProxyURLs(out.config),
               prevent |-> PreventKeepingConnectionsAlive(out.config),
               retries |-> RetriesWhenBlocked(out.config)]
    /\ UNCHANGED <<listVars, catalogVars, arg, trackVars>>

NextProxy ==
    \/ CallConstructor
    \/ CallMethods

SpecProxy == InitProxy /\ [][NextProxy]_vars

(* ============================ properties ============================== *)
Max(a, b) == IF a >= b THEN a ELSE b

(* ----------------------- YouTubeTranscriptCLI.Run --------------------- *)
\* strings.ReplaceAll(videoID, "\\", "")
RECURSIVE RemoveBackslashes(_)
RemoveBackslashes(id) ==
    IF id = <<>> THEN <<>>
    ELSE IF Head(id) = "\\" THEN RemoveBackslashes(Tail(id))
    ELSE <<Head(id)>> \o RemoveBackslashes(Tail(id))

\* NewYouTubeTranscriptCLI: the config the command line tool keeps
NewYouTubeTranscriptCLI(config) ==
    [config EXCEPT
        !.VideoIDs = [k \in 1 .. Len(config.VideoIDs) |-> RemoveBackslashes(config.VideoIDs[k])],
        !.Languages = IF Len(config.Languages) = 0 THEN <<"en">> ELSE config.Languages,
        !.Format = IF config.Format = "" THEN "pretty" ELSE config.Format]

\* the test Run starts with, passing only when the catalogs are asked for
ExcludesEverythingListed(config) ==
    config.ExcludeManuallyCreated /\ config.ExcludeGenerated /\ config.ListTranscripts

\* the test Run starts with
ExcludesEverything(config) == config.ExcludeManuallyCreated /\ config.ExcludeGenerated

\* url.Parse on the proxy urls tried: it rejects the one without a scheme
\* before its colon
urlParseFails(rawURL) == rawURL = "://h:1"

\* SetupHTTPClientProxy: the error it returns (the client it sets up is not
\* looked at again by Run)
SetupHTTPClientProxy(config) ==
    IF config = NilConfig THEN NoError
    ELSE LET urls == ToProxyURLs(config)
         IN  IF urls.httpURL # <<"">> /\ \E k \in 1 .. Len(urls.httpURL) : urlParseFails(urls.httpURL[k])
             THEN [kind |-> "invalid HTTP proxy URL"]
             ELSE IF urls.httpsURL # <<"">> /\ \E k \in 1 .. Len(urls.httpsURL) : urlParseFails(urls.httpsURL[k])
             THEN [kind |-> "invalid HTTPS proxy URL"]
             ELSE NoError

\* NewYouTubeTranscriptApi: the error it returns beside the instance
NewYouTubeTranscriptApi(config) ==
    IF config # NilConfig THEN SetupHTTPClientProxy(config) ELSE NoError

\* FormatterLoader.Load: the formatter named, or an error
LoaderTypes == {"json", "pretty", "text", "webvtt", "srt"}
Load(formatterType) ==
    LET named == IF formatterType = "" THEN "pretty" ELSE formatterType
    IN  IF named \in LoaderTypes
        THEN [err |-> NoError, type |-> named]
        ELSE [err |-> [kind |-> "not a valid formatter", type |-> named], type |-> named]

\* strings.Join(outputSections, "\n\n"): the sections with a separator
\* between two of them
RECURSIVE Join(_)
Join(outputSections) ==
    IF Len(outputSections) <= 1 THEN outputSections
    ELSE <<Head(outputSections), [kind |-> "separator"]>> \o Join(Tail(outputSections))

\* cli.fetchTranscript(transcriptList), given the response the GET of Fetch
\* would get: the error, the *FetchedTranscript and whether the GET is issued
fetchTranscript(config, h, transcriptList, resp) ==
    LET found == IF config.ExcludeManuallyCreated
                 THEN FindGeneratedTranscript(transcriptList, config.Languages)
                 ELSE IF config.ExcludeGenerated
                 THEN FindManuallyCreatedTranscript(transcriptList, config.Languages)
                 ELSE FindTranscript(transcriptList, config.Languages)
    IN  IF found.err # NoError
        THEN [err |-> found.err, ft |-> NoFetched, get |-> FALSE]
        ELSE LET translated == IF config.Translate # ""
                               THEN Translate(h, found.ret, config.Translate)
                               ELSE [err |-> NoError, ret |-> found.ret, heap |-> h]
             IN  IF translated.err # NoError
                 THEN [err |-> translated.err, ft |-> NoFetched, get |-> FALSE]
                 ELSE Fetch(translated.heap[translated.ret], resp, FALSE)

\* the command lines tried
RawVideoIDs == {<<"a", "b", "c">>, <<"x", "\\", "y">>}
CLIConfigs ==
    [VideoIDs : SeqsUpTo(RawVideoIDs, MaxVideoIDs),
     ListTranscripts : BOOLEAN,
     Languages : {<<>>},
     ExcludeGenerated : BOOLEAN,
     ExcludeManuallyCreated : BOOLEAN,
     Format : {"", "yaml"},
     Translate : {"", "es"},
     WebshareProxyUsername : {"", "user"},
     WebshareProxyPassword : {""},
     HTTPProxy : {"", "http://h:1", "://h:1"},
     HTTPSProxy : {""}]

\* what api.List may return to Run for a video: an error, a catalog, or no
\* return at all when BuildTranscriptList panics
RunCaptionsJSONs ==
    [translationLanguages : {<<[languageCode |-> "es", text |-> "Spanish"]>>},
     captionTracks : {<<Track("en", Absent, <<"u", "&fmt=srv3">>, TRUE)>>,
                      <<Track("en", "asr", <<"u", "&fmt=srv3">>, FALSE)>>}]
ListReturns(id) ==
    {[err |-> NewTranscriptsDisabled(id), panic |-> FALSE, heap |-> <<>>,
      tl |-> NewTranscriptList(id, EmptyMap, EmptyMap, <<>>)]}
        \cup {[err |-> NoError, panic |-> built.panic, heap |-> built.heap, tl |-> built.tl] :
                built \in {BuildTranscriptList(id, details, captionsJSON) :
                             details \in VideoDetailsJSONs, captionsJSON \in RunCaptionsJSONs}}

\* the responses the GET of Transcript.Fetch may get in Run
RunTrackResponses ==
    {[transportErr |-> FALSE, status |-> 200,
      body |-> [readable |-> TRUE, parsable |-> TRUE,
                snippets |-> <<FetchedTranscriptSnippet(<<"h", "i">>, 0, 15000)>>]],
     [transportErr |-> FALSE, status |-> 404,
      body |-> [readable |-> TRUE, parsable |-> FALSE, snippets |-> <<>>]]}

InitRun ==
    /\ Standalone
    /\ arg \in CLIConfigs

\* Run has returned output and err
Returned(state, output, err) ==
    [state EXCEPT !.done = TRUE, !.at = "returned", !.output = output, !.err = err]

\* Run from its first line to the loop over the video IDs
RunSetup ==
    /\ out = NoOut
    /\ LET config == NewYouTubeTranscriptCLI(arg)
           start == [done |-> FALSE, at |-> "loop", apis |-> 0, requests |-> 0,
                     processed |-> <<>>, exceptions |-> <<>>, transcripts |-> <<>>,
                     transcriptLists |-> <<>>, output |-> <<>>, err |-> NoError]
           generic == IF config.HTTPProxy # "" \/ config.HTTPSProxy # ""
                      THEN NewGenericProxyConfig(config.HTTPProxy, config.HTTPSProxy)
                      ELSE [config |-> NilConfig, err |-> NoError]
           webshare == IF config.WebshareProxyUsername # "" \/ config.WebshareProxyPassword # ""
                       THEN NewWebshareProxyConfig(config.WebshareProxyUsername,
                                                   config.WebshareProxyPassword,
                                                   <<>>, 10, "", 0)
                       ELSE generic
       IN  IF ExcludesEverything(config) THEN out' = Returned(start, <<>>, NoError)
           ELSE IF generic.err # NoError THEN out' = Returned(start, <<>>, generic.err)
           ELSE IF webshare.err # NoError THEN out' = Returned(start, <<>>, webshare.err)
           ELSE IF NewYouTubeTranscriptApi(webshare.config) # NoError
           THEN out' = Returned(start, <<>>, NewYouTubeTranscriptApi(webshare.config))
           ELSE out' = [start EXCEPT !.apis = 1]
    /\ UNCHANGED <<listVars, catalogVars, arg, trackVars>>

\* one iteration of the loop over the video IDs: api.List, then the catalog is
\* kept or cli.fetchTranscript is called on it
RunVideo ==
    /\ out # NoOut
    /\ out.at = "loop"
    /\ Len(out.processed) < Len(arg.VideoIDs)
    /\ LET config == NewYouTubeTranscriptCLI(arg)
           id == config.VideoIDs[Len(out.processed) + 1]
           listed == [out EXCEPT !.processed = Append(@, id), !.requests = @ + 1]
       IN  \E list \in ListReturns(id), resp \in RunTrackResponses :
             IF list.err # NoError
             THEN out' = [listed EXCEPT !.exceptions = Append(@, list.err)]
             ELSE IF list.panic
             THEN out' = [listed EXCEPT !.done = TRUE, !.at = "panicked"]
             ELSE IF config.ListTranscripts
             THEN out' = [listed EXCEPT
                            !.transcriptLists = Append(@, [heap |-> list.heap, tl |-> list.tl])]
             ELSE LET got == fetchTranscript(config, list.heap, list.tl, resp)
                      asked == [listed EXCEPT !.requests = IF got.get THEN @ + 1 ELSE @]
                  IN  IF got.err # NoError
                      THEN out' = [asked EXCEPT !.exceptions = Append(@, got.err)]
                      ELSE out' = [asked EXCEPT !.transcripts = Append(@, got.ft)]
    /\ UNCHANGED <<listVars, catalogVars, arg, trackVars>>

\* the section of the output for a catalog, with the order in which
\* String() ranges over each map
ListSections(transcriptLists) ==
    {sections \in [1 .. Len(transcriptLists) ->
                     UNION {{[kind |-> "list", index |-> k,
                              text |-> String(transcriptLists[k].heap, transcriptLists[k].tl,
                                              manualOrder, generatedOrder)] :
                               manualOrder \in IterationOrders(transcriptLists[k].tl.manuallyCreatedTranscripts),
                               generatedOrder \in IterationOrders(transcriptLists[k].tl.generatedTranscripts)} :
                            k \in 1 .. Len(transcriptLists)}] :
        \A k \in 1 .. Len(transcriptLists) : sections[k].index = k}

\* Run after the loop: the output is built and returned
RunOutput ==
    /\ out # NoOut
    /\ out.at = "loop"
    /\ Len(out.processed) = Len(arg.VideoIDs)
    /\ LET config == NewYouTubeTranscriptCLI(arg)
           errorSections == [k \in 1 .. Len(out.exceptions) |->
                               [kind |-> "error", index |-> k, text |-> Error(out.exceptions[k])]]
           formatter == Load(config.Format)
           formatted == FormatTranscripts(formatter.type, out.transcripts)
       IN  IF config.ListTranscripts
           THEN \E sections \in ListSections(out.transcriptLists) :
                   out' = Returned(out, Join(errorSections \o sections), NoError)
           ELSE IF Len(out.transcripts) > 0
           THEN IF formatter.err # NoError THEN out' = Returned(out, <<>>, formatter.err)
                ELSE IF formatted.err # NoError THEN out' = Returned(out, <<>>, formatted.err)
                ELSE out' = Returned(out, Join(Append(errorSections,
                                [kind |-> "transcripts", index |-> 1, text |-> formatted.output])),
                                NoError)
           ELSE out' = Returned(out, Join(errorSections), NoError)
    /\ UNCHANGED <<listVars, catalogVars, arg, trackVars>>

NextRun == RunSetup \/ RunVideo \/ RunOutput

SpecRun == InitRun /\ [][NextRun]_vars

(* ------------------------------ catalog ------------------------------- *)
\* the positions of the preferred codes that are a key of one of the maps
Hits(list, languageCodes) ==
    {i \in 1 .. Len(languageCodes) :
        languageCodes[i] \in (DOMAIN list.manuallyCreatedTranscripts)
                                \cup (DOMAIN list.generatedTranscripts)}

FirstHit(list, languageCodes) ==
    CHOOSE i \in Hits(list, languageCodes) :
        \A j \in Hits(list, languageCodes) : i <= j

\* C1: FindTranscript returns the handle of the first preferred code, in
\* caller order, that is a key of the manual or of the generated map, the
\* manual handle when the code is in both; it fails with no-transcript-found,
\* carrying the requested codes and the catalog, exactly when no preferred
\* code is a key of either map.
C1_FindTranscriptFirstCodeWins ==
    lastCall.op = "FindTranscript" =>
        IF Hits(tl, lastCall.codes) = {}
        THEN /\ lastCall.ret = NilAddr
             /\ lastCall.err.kind = "NoTranscriptFound"
             /\ lastCall.err.RequestedLanguageCodes = lastCall.codes
             /\ lastCall.err.TranscriptData = tl
        ELSE LET code == lastCall.codes[FirstHit(tl, lastCall.codes)]
             IN  /\ lastCall.err = NoError
                 /\ lastCall.ret =
                        IF code \in DOMAIN tl.manuallyCreatedTranscripts
                        THEN tl.manuallyCreatedTranscripts[code]
                        ELSE tl.generatedTranscripts[code]

\* C1 witness: manual = {en}, generated = {en, zh}; FindTranscript(zh, en)
\* returned the generated zh handle although en has a manual handle.
C1_Witness ==
    /\ lastCall.op = "FindTranscript"
    /\ lastCall.codes = <<"zh", "en">>
    /\ DOMAIN tl.manuallyCreatedTranscripts = {"en"}
    /\ DOMAIN tl.generatedTranscripts = {"en", "zh"}
    /\ lastCall.err = NoError
    /\ lastCall.ret = tl.generatedTranscripts["zh"]
    /\ heap[lastCall.ret].IsGenerated

(* ----------------------------- Translate ------------------------------ *)
\* the positions of code in a translation list
Listed(translationLanguages, code) ==
    {i \in 1 .. Len(translationLanguages) :
        translationLanguages[i].LanguageCode = code}

LastListed(translationLanguages, code) ==
    CHOOSE i \in Listed(translationLanguages, code) :
        \A j \in Listed(translationLanguages, code) : j <= i

\* C8: Translate(targetCode) on a handle whose translation list contains
\* targetCode succeeds and returns a new handle: url = the url of the receiver
\* followed by "&tlang=" and targetCode, languageCode = targetCode, display
\* language = the name listed for targetCode (the last one, if it is listed
\* twice), isGenerated = true, no translation languages, and the videoID,
\* title and thumbnail of the receiver.
C8_TranslateBuildsNewHandle ==
    [][ lastCall'.op = "Translate" =>
          LET t == heap[lastCall'.recv]
              code == lastCall'.target
              ret == lastCall'.ret
          IN  Listed(t.TranslationLanguages, code) # {} =>
                /\ lastCall'.err = NoError
                /\ ret \notin 1 .. Len(heap)
                /\ ret \in 1 .. Len(heap')
                /\ heap'[ret].url = t.url \o <<"&tlang=", code>>
                /\ heap'[ret].LanguageCode = code
                /\ heap'[ret].Language =
                      t.TranslationLanguages[LastListed(t.TranslationLanguages, code)].Language
                /\ heap'[ret].IsGenerated = TRUE
                /\ heap'[ret].TranslationLanguages = <<>>
                /\ DOMAIN heap'[ret].translationLanguagesMap = {}
                /\ heap'[ret].VideoID = t.VideoID
                /\ heap'[ret].Title = t.Title
                /\ heap'[ret].ThumbnailURL = t.ThumbnailURL
      ]_vars

\* C8 witness: a manually created handle was translated into a listed
\* language and the handle returned is a generated one.
C8_Witness ==
    /\ lastCall.op = "Translate"
    /\ lastCall.err = NoError
    /\ lastCall.ret \in 1 .. Len(heap)
    /\ origin[lastCall.ret] = lastCall.recv
    /\ ~heap[lastCall.recv].IsGenerated
    /\ heap[lastCall.ret].IsGenerated
    /\ heap[lastCall.ret].LanguageCode = lastCall.target

\* C9: Translate fails with not-translatable for every target code when the
\* translation list of the receiver is empty, and with
\* translation-language-not-available when the list is not empty but does not
\* hold the target code; no handle is returned or created in either case.
C9_TranslateFailures ==
    [][ lastCall'.op = "Translate" =>
          LET t == heap[lastCall'.recv]
              code == lastCall'.target
          IN  /\ Len(t.TranslationLanguages) = 0 =>
                    /\ lastCall'.err.kind = "NotTranslatable"
                    /\ lastCall'.ret = NilAddr
                    /\ heap' = heap
              /\ (Len(t.TranslationLanguages) > 0
                    /\ Listed(t.TranslationLanguages, code) = {}) =>
                    /\ lastCall'.err.kind = "TranslationLanguageNotAvailable"
                    /\ lastCall'.ret = NilAddr
                    /\ heap' = heap
      ]_vars

\* C9 witness: both failures have a case; here a handle of the catalog with
\* translation languages was asked for a code that is not among them.
C9_Witness ==
    /\ lastCall.op = "Translate"
    /\ lastCall.err.kind = "TranslationLanguageNotAvailable"
    /\ lastCall.ret = NilAddr
    /\ origin[lastCall.recv] = 0
    /\ Len(heap[lastCall.recv].TranslationLanguages) > 0

\* C10: no Translate call, successful or not, changes the url, languageCode,
\* isGenerated flag or translation list of a handle stored in the catalog, or
\* the catalog; Translate on a handle that Translate returned fails with
\* not-translatable, so no handle is derived from a derived handle.
C10_TranslateLeavesCatalogAlone ==
    [][ /\ tl' = tl
        /\ \A a \in 1 .. Len(heap) :
              origin[a] = 0 =>
                /\ a \in 1 .. Len(heap')
                /\ heap'[a].url = heap[a].url
                /\ heap'[a].LanguageCode = heap[a].LanguageCode
                /\ heap'[a].IsGenerated = heap[a].IsGenerated
                /\ heap'[a].TranslationLanguages = heap[a].TranslationLanguages
        /\ (lastCall'.op = "Translate" /\ origin[lastCall'.recv] # 0) =>
              /\ lastCall'.err.kind = "NotTranslatable"
              /\ lastCall'.ret = NilAddr
        /\ \A a \in 1 .. Len(heap') : origin'[a] # 0 => origin'[origin'[a]] = 0
      ]_vars

\* C10 witness: Translate was called on a handle that an earlier Translate
\* had derived from a handle of the catalog, and failed.
C10_Witness ==
    /\ lastCall.op = "Translate"
    /\ origin[lastCall.recv] # 0
    /\ origin[origin[lastCall.recv]] = 0
    /\ lastCall.err.kind = "NotTranslatable"
    /\ heap[origin[lastCall.recv]].TranslationLanguages # <<>>

(* -------------------------------- List -------------------------------- *)
\* the retry count of the configuration of the fetcher, 0 without one
AllowedRetries ==
    IF proxyConfig.type = "WebshareProxyConfig"
    THEN proxyConfig.RetriesWhenBlockedCount
    ELSE 0

\* the failures classified as blocked: by HTTP 429 or a CAPTCHA page
\* (IpBlocked) or by the bot-detection playability reason (RequestBlocked)
BlockedKinds == {"RequestBlocked", "IpBlocked"}

\* C2: an attempt that fails as blocked, from whichever cause, is run again
\* instead of being returned while attemptIndex + 1 < allowedRetries: List
\* returns a blocked failure only when the retries are used up.
C2_EveryBlockedAttemptIsRetried ==
    (pc = "done" /\ result.err.kind \in BlockedKinds) =>
        ~(tryNumber + 1 < AllowedRetries)

\* C3: attempts never exceed max(1, N), N the retry count of the proxy
\* configuration (0 without one or with a fixed proxy); a List call that
\* returns the bot-detection failure has made exactly max(1, N) attempts, each
\* of which ended with that failure.
C3_BlockedAttemptsAreBounded ==
    /\ attempts <= Max(1, AllowedRetries)
    /\ proxyConfig.type \in {"nil", "GenericProxyConfig"} => attempts <= 1
    /\ (pc = "done" /\ result.err.kind = "RequestBlocked") =>
          /\ attempts = Max(1, AllowedRetries)
          /\ Len(failures) = attempts
          /\ \A i \in 1 .. Len(failures) : failures[i].kind = "RequestBlocked"

\* C3 witness: with a retry count of 3, List gave up on bot detection after
\* three attempts.
C3_Witness ==
    /\ pc = "done"
    /\ result.err.kind = "RequestBlocked"
    /\ AllowedRetries = 3
    /\ attempts = 3
    /\ sleeps = <<1, 2>>

\* C4: an attempt that fails with a failure that is not a blocked one is the
\* last attempt and List returns that failure, whatever the retry count; when
\* it is the first attempt, List has made exactly one attempt.
C4_OtherFailuresAreNotRetried ==
    \A i \in 1 .. Len(failures) :
        failures[i].kind \notin BlockedKinds =>
            /\ i = Len(failures)
            /\ pc = "done"
            /\ result.err = failures[i]
            /\ ~result.hasList
            /\ attempts = i

\* C4 witness: with a retry count of 3, the first attempt found the
\* transcripts disabled and List returned after that one attempt.
C4_Witness ==
    /\ pc = "done"
    /\ AllowedRetries = 3
    /\ attempts = 1
    /\ failures # <<>>
    /\ result.err.kind = "TranscriptsDisabled"
    /\ stages = <<"page", "key", "player", "playability", "captions">>

\* C5: when the page body had the consent form and the body fetched again
\* still has it, the attempt ends after exactly two page GETs with the
\* consent-cookie failure, without key extraction and without the POST.
C5_ConsentFailureStopsAttempt ==
    (/\ Len(stages) >= 2
     /\ stages[1] = "page"
     /\ stages[2] = "page"
     /\ html.consent) =>
        /\ pc = "done"
        /\ result.err.kind = "FailedToCreateConsentCookie"
        /\ ~result.hasList
        /\ stages = <<"page", "page">>

\* C5 witness: the consent form was still there after the second GET.
C5_Witness ==
    /\ pc = "done"
    /\ stages = <<"page", "page">>
    /\ html.consent
    /\ "CONSENT" \in cookies
    /\ result.err.kind = "FailedToCreateConsentCookie"

(* ----------------------------- extraction ----------------------------- *)
\* the texts of the well-formed runs of a complete error screen
ExpectedSubReasons(errorScreen) ==
    IF errorScreen.depth < 4 THEN <<>>
    ELSE LET ok == {i \in 1 .. Len(errorScreen.runs) : errorScreen.runs[i] # Absent}
             RECURSIVE Pick(_)
             Pick(n) == IF n = 0 THEN <<>>
                        ELSE IF n \in ok THEN Append(Pick(n - 1), errorScreen.runs[n])
                        ELSE Pick(n - 1)
         IN  Pick(Len(errorScreen.runs))

\* C6: the playability classifier: no playabilityStatus, no status string or
\* status OK -> playable; LOGIN_REQUIRED with the bot-detection reason ->
\* blocked; LOGIN_REQUIRED with the age-restriction reason -> age-restricted;
\* ERROR with the video-unavailable reason -> invalid-video-id when the video
\* id starts with http:// or https://, else video-unavailable; every other
\* status and reason -> unplayable with the reason text and the sub-reasons,
\* which are empty when a nested error-screen field is missing.
C6_PlayabilityClassifier ==
    out.done =>
        LET p == arg.innertubeData.playabilityStatus
            v == arg.videoID
            e == out.playability
            reason == IF p.reason = Absent THEN "" ELSE p.reason
            isURL == \/ (Len(v) >= 7 /\ SubSeq(v, 1, 7) = <<"h", "t", "t", "p", ":", "/", "/">>)
                     \/ (Len(v) >= 8 /\ SubSeq(v, 1, 8) = <<"h", "t", "t", "p", "s", ":", "/", "/">>)
            playable == ~p.present \/ p.status \in {Absent, "OK"}
            bot == p.status = "LOGIN_REQUIRED"
                     /\ p.reason = "Sign in to confirm you're not a bot"
            age == p.status = "LOGIN_REQUIRED"
                     /\ p.reason = "This video may be inappropriate for some users."
            gone == p.status = "ERROR" /\ p.reason = "This video is unavailable"
        IN  /\ e.kind \in {"nil", "RequestBlocked", "AgeRestricted", "InvalidVideoId",
                           "VideoUnavailable", "VideoUnplayable"}
            /\ playable <=> e = NoError
            /\ (~playable /\ bot) <=> e.kind = "RequestBlocked"
            /\ (~playable /\ age) <=> e.kind = "AgeRestricted"
            /\ (~playable /\ gone /\ isURL) <=> e.kind = "InvalidVideoId"
            /\ (~playable /\ gone /\ ~isURL) <=> e.kind = "VideoUnavailable"
            /\ (~playable /\ ~bot /\ ~age /\ ~gone) <=> e.kind = "VideoUnplayable"
            /\ e.kind # "nil" => e.VideoID = v
            /\ e.kind = "VideoUnplayable" =>
                  /\ e.Reason = reason
                  /\ e.SubReasons = ExpectedSubReasons(p.errorScreen)

\* C6 witness: LOGIN_REQUIRED with a reason that is neither bot detection nor
\* age restriction, and an error screen with a malformed run among its runs:
\* unplayable, with the text of the well-formed run only.
C6_Witness ==
    /\ out.done
    /\ arg.innertubeData.playabilityStatus.status = "LOGIN_REQUIRED"
    /\ arg.innertubeData.playabilityStatus.reason = "Private video"
    /\ arg.innertubeData.playabilityStatus.errorScreen.runs = <<Absent, "sub1">>
    /\ out.playability.kind = "VideoUnplayable"
    /\ out.playability.SubReasons = <<"sub1">>

\* C7: extraction reports a failing playability check first; otherwise
\* missing videoDetails give unparsable-data, also when the captions are
\* missing too; otherwise a missing captions object, renderer or
\* captionTracks key gives transcripts-disabled; otherwise the videoDetails
\* and the captions of the response are returned.
C7_ExtractionOrder ==
    out.done =>
        LET d == arg.innertubeData
            e == out.extracted
        IN  IF out.playability # NoError THEN e.err = out.playability
            ELSE IF ~d.videoDetails.present
            THEN e.err.kind = "YouTubeDataUnparsable" /\ e.err.VideoID = arg.videoID
            ELSE IF d.captions.level \in {0, 1, 2}
            THEN e.err.kind = "TranscriptsDisabled" /\ e.err.VideoID = arg.videoID
            ELSE /\ e.err = NoError
                 /\ e.videoDetailsJSON.title = d.videoDetails.title
                 /\ e.captionsJSON = d.captions.json

\* C7 witness: a playable response without videoDetails and without captions
\* is unparsable data, not disabled transcripts.
C7_Witness ==
    /\ out.done
    /\ out.playability = NoError
    /\ ~arg.innertubeData.videoDetails.present
    /\ arg.innertubeData.captions.level = 0
    /\ out.extracted.err.kind = "YouTubeDataUnparsable"

(* ----------------------------- formatters ------------------------------ *)
TimedFormats == {"srt", "webvtt"}

\* the transcript the last FormatTranscript call was given
Formatted == arg.transcripts[out.index]

\* the end the specification gives cue i: start + duration, or the start of
\* the next snippet if that is earlier
ExpectedEnd(snippets, i) ==
    LET end == snippets[i].Start + snippets[i].Duration
    IN  IF i = Len(snippets) THEN end
        ELSE IF snippets[i + 1].Start < end THEN snippets[i + 1].Start
        ELSE end

\* the time a formatted timestamp denotes, in milliseconds
TimestampMillis(chars) ==
    ((ParseDigits(SubSeq(chars, 1, 2)) * 60 + ParseDigits(SubSeq(chars, 4, 5))) * 60
        + ParseDigits(SubSeq(chars, 7, 8))) * 1000
        + ParseDigits(SubSeq(chars, 10, Len(chars)))

\* C11: for every snippet sequence, sorted or not, the SRT and the WebVTT
\* formatter end cue i at start[i] + duration[i], or at start[i+1] when i is
\* not the last cue and start[i+1] is earlier than that; only the next snippet
\* is consulted, and no cue ends after the start the next cue is given.
C11_CueEndsAreClampedToNextStart ==
    (out.done /\ out.call = "FormatTranscript" /\ out.formatterType \in TimedFormats) =>
        LET snippets == Formatted.Snippets
            lines == out.output.lines
            separator == IF out.formatterType = "srt" THEN "," ELSE "."
        IN  /\ out.err = NoError
            /\ Len(lines) = Len(snippets)
            /\ \A i \in 1 .. Len(snippets) :
                /\ lines[i].timeText.from
                     = formatTimestamp(separator, secondsToTimestamp(snippets[i].Start))
                /\ lines[i].timeText.to
                     = formatTimestamp(separator,
                                       secondsToTimestamp(ExpectedEnd(snippets, i)))
                /\ i < Len(snippets) =>
                     TimestampMillis(lines[i].timeText.to)
                        <= TimestampMillis(lines[i + 1].timeText.from)

\* a cue that a later snippet, but not the next one, starts before the end of
C11_Witness ==
    /\ out.done
    /\ out.call = "FormatTranscript"
    /\ out.formatterType \in TimedFormats
    /\ LET snippets == Formatted.Snippets
       IN  /\ Len(snippets) = 3
           /\ snippets[2].Start >= snippets[1].Start + snippets[1].Duration
           /\ snippets[3].Start < snippets[1].Start + snippets[1].Duration
           /\ snippets[3].Start < snippets[2].Start + snippets[2].Duration
           /\ out.output.lines[2].timeText.to # out.output.lines[1].timeText.to

\* the timestamp the specification gives a time: truncated hours, minutes and
\* seconds, and the milliseconds rounded to the nearest integer without carry
RoundedTimestamp(time) ==
    LET seconds == time \div TicksPerSecond
        fraction == time % TicksPerSecond
    IN  <<seconds \div 3600, (seconds % 3600) \div 60, seconds % 60,
          (2 * fraction * 1000 + TicksPerSecond) \div (2 * TicksPerSecond)>>

\* C12: for every non-negative time the conversion yields hours =
\* floor(t/3600), minutes = floor(remainder/60), seconds = floor(remainder)
\* and milliseconds = the remaining fraction times 1000 rounded to the
\* nearest integer, with no carry (0.9996 s yields 1000 milliseconds).
C12_MillisecondsAreRounded ==
    out.done => out.timestamp = RoundedTimestamp(arg.time)

\* a time with a fraction of 0.9996 s has been converted
C12_RoundingCase == out.done /\ arg.time % TicksPerSecond = 9996

\* the timestamp of a time: truncated hours, minutes, seconds and milliseconds
TruncatedTimestamp(time) ==
    LET seconds == time \div TicksPerSecond
        fraction == time % TicksPerSecond
    IN  <<seconds \div 3600, (seconds % 3600) \div 60, seconds % 60,
          (fraction * 1000) \div TicksPerSecond>>

\* C12, amended: for every non-negative time the conversion yields hours =
\* floor(t/3600), minutes = floor(remainder/60), seconds = floor(remainder)
\* and milliseconds = the remaining fraction times 1000 truncated toward
\* zero, so the milliseconds are within 0..999 and nothing is carried.
C12_MillisecondsAreTruncated ==
    out.done =>
        /\ out.timestamp = TruncatedTimestamp(arg.time)
        /\ out.timestamp[4] \in 0 .. 999

\* a time of an hour or more with a fraction of 0.9996 s gives 999 milliseconds
C12_Witness ==
    /\ C12_RoundingCase
    /\ arg.time >= 3600 * TicksPerSecond
    /\ out.timestamp[1] >= 1
    /\ out.timestamp[4] = 999

StructuredFormats == {"json", "pretty"}

\* the decoded value is the array of the objects of snippets: one object per
\* snippet, in order, with exactly the keys text, start and duration
DecodesToSnippets(value, snippets) ==
    /\ value.type = "array"
    /\ Len(value.items) = Len(snippets)
    /\ \A i \in 1 .. Len(snippets) :
        /\ value.items[i].type = "object"
        /\ DOMAIN value.items[i].fields = {"text", "start", "duration"}
        /\ value.items[i].fields["text"] = [type |-> "string", s |-> snippets[i].Text]
        /\ value.items[i].fields["start"] = [type |-> "number", f |-> snippets[i].Start]
        /\ value.items[i].fields["duration"]
             = [type |-> "number", f |-> snippets[i].Duration]

C14_StructuredListDecodesToArrays ==
    (out.done /\ out.call = "FormatTranscripts" /\ out.formatterType \in StructuredFormats) =>
        LET value == Unmarshal(out.output)
        IN  /\ out.err = NoError
            /\ value.type = "array"
            /\ Len(value.items) = Len(arg.transcripts)
            /\ \A j \in 1 .. Len(arg.transcripts) :
                DecodesToSnippets(value.items[j], arg.transcripts[j].Snippets)

(* --------------------------- error messages --------------------------- *)
\* C15: for every retrieval error kind, the text Error() returns contains the
\* watch url of the video and the explanation Cause() returns for that kind.
C15_ErrorTextHoldsUrlAndCause ==
    out.done =>
        /\ out.message.videoURL = WatchURL(arg.err.VideoID)
        /\ out.cause.text # ""
        /\ out.message.hasCause
        /\ out.message.cause.text = out.cause.text
        /\ out.message.cause.args = out.cause.args

\* the explanation the specification gives a blocked failure under a proxy
\* configuration: the rotating-residential text, the fixed-proxy text, or the
\* text the kind has when no proxy is configured
BlockedExplanation(config, e) ==
    IF config = NilProxyConfig THEN Cause(WithProxyConfig(e, NilProxyConfig)).text
    ELSE IF config.type = "WebshareProxyConfig"
    THEN "YouTube is blocking your requests, despite you using Webshare proxies."
    ELSE "YouTube is blocking your requests, despite you using proxies."

\* C16: when List gives up on a blocked failure, the error it returns carries
\* the proxy configuration of the fetcher, and its explanation is the
\* rotating-residential text exactly for a Webshare configuration, the
\* fixed-proxy text exactly for a generic one and the no-proxy text exactly
\* when no proxy is configured.
C16_BlockedErrorCarriesProxyConfig ==
    (pc = "done" /\ result.err.kind \in BlockedKinds) =>
        /\ result.err.proxyConfig = proxyConfig
        /\ Cause(result.err).text = BlockedExplanation(proxyConfig, result.err)

(* ------------------------------- Fetch -------------------------------- *)
\* C17: Transcript.Fetch on a handle whose url contains "&exp=xpe" returns the
\* token-required failure without issuing a GET; on any other handle it
\* issues exactly one GET, to the url of the handle, before it produces its
\* result.
C17_FetchGetsOnceUnlessTokenRequired ==
    [][(lastCall'.op = "Fetch"
          /\ <<lastCall', fetching', gets', fetched'>> # <<lastCall, fetching, gets, fetched>>) =>
        LET t == heap[lastCall'.recv]
        IN  IF fetching = NilAddr
            THEN IF \E i \in 1 .. Len(t.url) : t.url[i] = "&exp=xpe"
                 THEN /\ lastCall'.err = NewPoTokenRequired(t.VideoID)
                      /\ fetched'.isNil
                      /\ gets' = gets
                      /\ fetching' = NilAddr
                 ELSE /\ gets' = Append(gets, t.url)
                      /\ fetching' = lastCall'.recv
                      /\ fetched'.isNil
            ELSE /\ lastCall'.recv = fetching
                 /\ gets' = gets
                 /\ fetching' = NilAddr
                 /\ lastCall'.err.kind # "PoTokenRequired"
                 /\ fetched'.isNil <=> lastCall'.err # NoError]_vars

\* after a Fetch that issued its GET and returned a transcript, a Fetch on a
\* translated handle whose url has the marker before "&tlang=" was refused
C17_Witness ==
    /\ lastCall.op = "Fetch"
    /\ fetching = NilAddr
    /\ lastCall.err.kind = "PoTokenRequired"
    /\ origin[lastCall.recv] # 0
    /\ Len(gets) = 1
    /\ fetched.isNil

(* ---------------------------- HTTP statuses --------------------------- *)
\* the body of the response can be read and is what the stage expects
BodyIsGood ==
    IF arg.request = "track" THEN arg.resp.body.readable /\ arg.resp.body.parsable
    ELSE ~arg.resp.bodyErr

\* C18: for the page GET, the player-data POST and the per-track GET alike, a
\* transport error gives request-failed, the status 429 gives the blocked
\* failure, any other status >= 400 gives request-failed, and every status
\* below 400 lets the stage continue with the body.
C18_StatusesAreClassifiedAlike ==
    out.done =>
        IF arg.resp.transportErr
        THEN out.err.kind = "YouTubeRequestFailed" /\ out.err.Reason[1] = "transport"
        ELSE IF arg.resp.status = 429
        THEN out.err.kind = "IpBlocked"
        ELSE IF arg.resp.status >= 400
        THEN out.err.kind = "YouTubeRequestFailed" /\ out.err.Reason[1] = "HTTP"
        ELSE IF BodyIsGood
        THEN out.err = NoError
        ELSE out.err.kind = "YouTubeRequestFailed"
                /\ out.err.Reason[1] \in {"read", "decode", "parse"}

\* a per-track GET answered with a status just below 400 went on to the body
C18_Witness ==
    /\ out.done
    /\ arg.request = "track"
    /\ arg.resp.status = 399
    /\ out.err = NoError
    /\ ~out.value.isNil

(* ------------------------ the one-map searches ------------------------ *)
\* the map a one-map search looks in, and the map it leaves alone
OwnMap(op) ==
    IF op = "FindManuallyCreatedTranscript" THEN tl.manuallyCreatedTranscripts
    ELSE tl.generatedTranscripts
OtherMap(op) ==
    IF op = "FindManuallyCreatedTranscript" THEN tl.generatedTranscripts
    ELSE tl.manuallyCreatedTranscripts

\* the positions of the preferred codes that are a key of the map
HitsIn(dict, languageCodes) ==
    {i \in 1 .. Len(languageCodes) : languageCodes[i] \in DOMAIN dict}

\* C19: FindManuallyCreatedTranscript and FindGeneratedTranscript return the
\* handle of the first preferred code, in caller order, that is a key of
\* their own map and never a handle of the other map; a handle returned by
\* FindManuallyCreatedTranscript is not generated; each fails with
\* no-transcript-found when no preferred code is a key of its own map, even
\* if one is a key of the other map.
C19_OneMapSearchesKeepToTheirMap ==
    lastCall.op \in {"FindManuallyCreatedTranscript", "FindGeneratedTranscript"} =>
        LET own == OwnMap(lastCall.op)
            other == OtherMap(lastCall.op)
            hits == HitsIn(own, lastCall.codes)
        IN  IF hits = {}
            THEN /\ lastCall.ret = NilAddr
                 /\ lastCall.err.kind = "NoTranscriptFound"
            ELSE LET first == CHOOSE i \in hits : \A j \in hits : i <= j
                 IN  /\ lastCall.err = NoError
                     /\ lastCall.ret = own[lastCall.codes[first]]
                     /\ \A c \in DOMAIN other : lastCall.ret # other[c]
                     /\ lastCall.op = "FindManuallyCreatedTranscript"
                            => ~heap[lastCall.ret].IsGenerated

\* C19 witness: manual = {zh}, generated = {en};
\* FindManuallyCreatedTranscript(en) failed although en has a generated handle.
C19_Witness ==
    /\ lastCall.op = "FindManuallyCreatedTranscript"
    /\ lastCall.codes = <<"en">>
    /\ DOMAIN tl.manuallyCreatedTranscripts = {"zh"}
    /\ DOMAIN tl.generatedTranscripts = {"en"}
    /\ lastCall.ret = NilAddr
    /\ lastCall.err.kind = "NoTranscriptFound"

(* ------------------------- proxy configurations ----------------------- *)
\* C20: NewWebshareProxyConfig called with a username, a password, a retry
\* count r and the default domain and port returns a non-nil configuration and
\* no error; the configuration reports RetriesWhenBlocked() = r, the same
\* non-empty url for http and https, and prevent-keep-alive = TRUE.
C20_WebshareConstructorSucceeds ==
    (out.done /\ arg.ctor = "NewWebshareProxyConfig"
        /\ arg.proxyUsername # "" /\ arg.proxyPassword # ""
        /\ arg.domainName = "" /\ arg.proxyPort = 0) =>
            /\ out.config # NilConfig
            /\ out.err = NoError
            /\ out.asked =>
                /\ out.retries = arg.retriesWhenBlocked
                /\ out.urls.httpURL = out.urls.httpsURL
                /\ out.urls.httpURL # <<>>
                /\ out.prevent

\* C21: NewGenericProxyConfig fails with InvalidProxyConfig exactly when
\* both urls are empty; ToProxyURLs of a configuration it returns gives the
\* configured http url (the https url when http is empty) and the configured
\* https url (the http url when https is empty), neither of them empty; the
\* configuration reports retry count 0 and prevent-keep-alive = FALSE.
C21_GenericConfigFallsBackOnTheOtherUrl ==
    (out.done /\ arg.ctor = "NewGenericProxyConfig") =>
        /\ (out.err # NoError) <=> (arg.httpURL = "" /\ arg.httpsURL = "")
        /\ out.err # NoError => out.err.kind = "InvalidProxyConfig" /\ out.config = NilConfig
        /\ out.err = NoError => out.config # NilConfig
        /\ out.asked =>
            /\ out.urls.httpURL =
                   <<IF arg.httpURL # "" THEN arg.httpURL ELSE arg.httpsURL>>
            /\ out.urls.httpsURL =
                   <<IF arg.httpsURL # "" THEN arg.httpsURL ELSE arg.httpURL>>
            /\ out.urls.httpURL # <<"">>
            /\ out.urls.httpsURL # <<"">>
            /\ out.retries = 0
            /\ ~out.prevent

\* a configuration made with the https url only answers with it for http too
C21_Witness ==
    /\ out.done
    /\ out.asked
    /\ arg.ctor = "NewGenericProxyConfig"
    /\ arg.httpURL = ""
    /\ arg.httpsURL = "socks5://s:2"
    /\ out.urls.httpURL = <<"socks5://s:2">>

(* ------------------------- building the catalog ---------------------- *)
\* the kinds of failure List may return
TaxonomyKinds ==
    {"YouTubeDataUnparsable", "YouTubeRequestFailed", "VideoUnplayable",
     "VideoUnavailable", "InvalidVideoId", "RequestBlocked", "IpBlocked",
     "TranscriptsDisabled", "AgeRestricted", "FailedToCreateConsentCookie"}

\* C24: once the player response has passed the playability check and has
\* videoDetails and captionTracks, whatever else is absent (a videoDetails
\* without a string title in particular), List returns a catalog or one of
\* the taxonomy failures; it never aborts abnormally.
C24_ListNeverAbortsAbnormally ==
    (pc = "done" /\ Len(stages) > 0 /\ stages[Len(stages)] = "build") =>
        /\ ~result.panic
        /\ result.hasList \/ result.err.kind \in TaxonomyKinds

\* the language codes of the tracks BuildTranscriptList keeps, by category
KeptCodes(captionTracks, generated) ==
    {captionTracks[i].languageCode :
        i \in {j \in 1 .. Len(captionTracks) :
                  /\ captionTracks[j].languageCode # Absent
                  /\ captionTracks[j].hasBaseUrl
                  /\ (captionTracks[j].kind = "asr") = generated}}

\* C26: in every catalog BuildTranscriptList builds, each key of either map is
\* the languageCode of the handle under it, the handles of the generated map
\* are generated and those of the manual map are not (a track is generated
\* exactly when its kind is "asr"), and a track without a languageCode is in
\* neither map; the same languageCode may be a key of both maps.
C26_CatalogMapsAreConsistent ==
    (out.done /\ ~out.panic) =>
        LET manual == out.tl.manuallyCreatedTranscripts
            generated == out.tl.generatedTranscripts
            tracks == arg.captionsJSON.captionTracks
        IN  /\ \A c \in DOMAIN manual :
                /\ out.heap[manual[c]].LanguageCode = c
                /\ ~out.heap[manual[c]].IsGenerated
            /\ \A c \in DOMAIN generated :
                /\ out.heap[generated[c]].LanguageCode = c
                /\ out.heap[generated[c]].IsGenerated
            /\ DOMAIN manual = KeptCodes(tracks, FALSE)
            /\ DOMAIN generated = KeptCodes(tracks, TRUE)
            /\ Absent \notin (DOMAIN manual) \cup (DOMAIN generated)

\* C26 witness: the tracks en, en (asr) and one without a languageCode gave a
\* catalog with en in both maps and nothing else.
C26_Witness ==
    /\ out.done
    /\ ~out.panic
    /\ Len(arg.captionsJSON.captionTracks) = 3
    /\ arg.captionsJSON.captionTracks[3] = TrackWithoutCode
    /\ DOMAIN out.tl.manuallyCreatedTranscripts = {"en"}
    /\ DOMAIN out.tl.generatedTranscripts = {"en"}
    /\ out.tl.manuallyCreatedTranscripts["en"] # out.tl.generatedTranscripts["en"]

(* --------------------------- order of the stages ---------------------- *)
\* the stages of one attempt, and the same after a second GET of the page for
\* the consent cookie
StageOrder == <<"page", "key", "player", "playability", "captions", "build">>
StageOrderWithConsent == <<"page">> \o StageOrder

IsPrefix(s, t) == Len(s) <= Len(t) /\ SubSeq(t, 1, Len(s)) = s

\* C27: within one attempt the stages run in the order page fetch, key
\* extraction, player-data POST, playability check, caption extraction; a
\* failure of a stage is returned with no catalog, and no later stage of the
\* attempt is run.
C27_StagesRunInOrder ==
    /\ IsPrefix(stages, StageOrder) \/ IsPrefix(stages, StageOrderWithConsent)
    /\ pc = "player" => stages[Len(stages)] = "key"
    /\ (pc = "done" /\ stages[Len(stages)] # "build") =>
          /\ result.err # NoError
          /\ ~result.hasList
          /\ failures[Len(failures)] = result.err
    /\ (pc = "done" /\ result.err # NoError) => stages[Len(stages)] # "build"
    /\ (pc = "done" /\ result.hasList) => stages[Len(stages)] = "build"

\* C27 witness: the key extraction failed and List returned without the POST.
C27_Witness ==
    /\ pc = "done"
    /\ stages = <<"page", "key">>
    /\ result.err.kind = "YouTubeDataUnparsable"
    /\ ~result.hasList

(* ------------------------------- backoff ------------------------------ *)
\* C28: between the blocked failure of attempt k (counted from 0) and the
\* start of the next attempt List sleeps k + 1 seconds: the sleeps of one call
\* are 1, 2, ... in this order, one before each retry and none after the last
\* attempt.
C28_SleepsGrowByOneSecond ==
    /\ Len(sleeps) = tryNumber
    /\ \A k \in 0 .. Len(sleeps) - 1 :
          /\ sleeps[k + 1] = k + 1
          /\ failures[k + 1].kind \in BlockedKinds
    /\ pc # "idle" => attempts = Len(sleeps) + 1
    /\ pc = "done" /\ ~result.hasList /\ ~result.panic => Len(failures) = Len(sleeps) + 1

\* C28 witness: the third attempt has started after sleeps of 1 and 2 seconds
C28_Witness ==
    /\ pc = "page"
    /\ tryNumber = 2
    /\ sleeps = <<1, 2>>
    /\ Len(failures) = 2

(* -------------------------------- tags -------------------------------- *)
\* the tag that starts at position i of the text: "<", an optional "/", a
\* name that starts with a letter and runs up to a blank, a "/" or the ">",
\* and then everything up to the next ">"
TagAt(text, i) ==
    LET n == IF i + 1 <= Len(text) /\ text[i + 1] = "/" THEN i + 2 ELSE i + 1
        j == FirstOf(text, n, ">")
        stops == {k \in n .. Len(text) : text[k] \in {" ", "/", ">"}}
        stop == CHOOSE k \in stops : \A l \in stops : k <= l
    IN  IF text[i] = "<" /\ n <= Len(text) /\ IsLetter(text[n]) /\ j # 0
        THEN [end |-> j, name |-> SubSeq(text, n, stop - 1)]
        ELSE [end |-> 0, name |-> <<>>]

\* the text from position i on without its tags, or without the tags whose
\* name is not a formatting tag
RECURSIVE WithoutTags(_, _, _)
WithoutTags(text, i, preserveFormatting) ==
    IF i > Len(text) THEN <<>>
    ELSE LET tag == TagAt(text, i)
         IN  IF tag.end = 0
             THEN <<text[i]>> \o WithoutTags(text, i + 1, preserveFormatting)
             ELSE (IF preserveFormatting /\ ToLower(tag.name) \in formattingTags
                   THEN SubSeq(text, i, tag.end) ELSE <<>>)
                      \o WithoutTags(text, tag.end + 1, preserveFormatting)

\* C25: for every unescaped snippet text, the parser removes every tag when
\* preserveFormatting is false, and when it is true removes exactly the
\* opening and closing tags whose name, case ignored, is outside the
\* formatting tags and leaves those verbatim with their attributes; the text
\* outside tags is unchanged in both modes.
C25_TagsAreRemovedAndTextIsKept ==
    out.done => out.text = WithoutTags(arg.text, 1, arg.preserveFormatting)

(* ------------------------------- parser ------------------------------ *)
\* the value of a numeric attribute: the number it denotes, 0 when it is
\* absent or is not a number
AttrNumber(attr) ==
    LET value == attr.value
    IN
    IF ~attr.has THEN 0
    ELSE IF /\ value # <<>>
            /\ \A k \in 1 .. Len(value) : IsDigit(value[k]) \/ value[k] = "."
            /\ Cardinality({k \in 1 .. Len(value) : value[k] = "."}) <= 1
            /\ \E k \in 1 .. Len(value) : IsDigit(value[k])
    THEN ParseFloat(value)
    ELSE 0

\* the child elements that give a snippet, in document order
RECURSIVE TextElements(_)
TextElements(elements) ==
    IF elements = <<>> THEN <<>>
    ELSE IF Head(elements).Tag = "text" /\ Head(elements).Text # <<>>
    THEN <<Head(elements)>> \o TextElements(Tail(elements))
    ELSE TextElements(Tail(elements))

\* C29: for every timed-text document the parser emits one snippet for each
\* top-level element named "text" whose text is not empty, in document order,
\* and nothing for the other elements; an absent or unparsable start or dur
\* gives 0.0 for that field of that snippet only, and never fails the parse
\* or drops the snippet.
C29_OneSnippetPerTextElement ==
    (out.done /\ arg.doc.wellFormed /\ arg.doc.hasRoot) =>
        LET kept == TextElements(arg.doc.children)
        IN  /\ ~out.err
            /\ Len(out.snippets) = Len(kept)
            /\ \A k \in 1 .. Len(kept) :
                  /\ out.snippets[k].Start = AttrNumber(kept[k].start)
                  /\ out.snippets[k].Duration = AttrNumber(kept[k].dur)
                  /\ out.snippets[k].Text =
                        processTags(UnescapeString(kept[k].Text), arg.preserveFormatting)

(* ------------------------------ the CLI ------------------------------- *)
\* both exclude flags are set on the command line
BothExcluded == arg.ExcludeManuallyCreated /\ arg.ExcludeGenerated

\* the config Run works on
RunConfig == NewYouTubeTranscriptCLI(arg)

\* the kinds of the sections of an output, without the separators
RECURSIVE SectionKinds(_)
SectionKinds(output) ==
    IF output = <<>> THEN <<>>
    ELSE IF Head(output).kind = "separator" THEN SectionKinds(Tail(output))
    ELSE <<Head(output).kind>> \o SectionKinds(Tail(output))

\* C22: with both exclude flags set, Run returns the empty string and a nil
\* error without constructing an API instance or issuing any request,
\* whatever the rest of the command line is.
C22_BothExcludeFlagsReturnNothing ==
    (out # NoOut /\ BothExcluded) =>
        /\ out.done
        /\ out.at = "returned"
        /\ out.output = <<>>
        /\ out.err = NoError
        /\ out.apis = 0
        /\ out.requests = 0

\* both flags set on a command line with two video IDs, a proxy url that
\* does not parse, webshare credentials and an unknown format, and Run has
\* returned
C22_Witness ==
    /\ out # NoOut
    /\ out.done
    /\ BothExcluded
    /\ Len(arg.VideoIDs) = 2
    /\ urlParseFails(arg.HTTPProxy)
    /\ arg.WebshareProxyUsername # ""
    /\ arg.Format = "yaml"
    /\ out.output = <<>>
    /\ out.err = NoError

\* C23: for every list of video IDs (unless both exclude flags are set or a
\* proxy url does not parse), Run processes every ID in list order and goes
\* on after an ID that fails: when Run is over it has called List on each ID,
\* the errors and the results are as many as the IDs, and in the output it
\* returns the error texts all come before the results.
C23_EveryVideoIsProcessed ==
    (out # NoOut /\ out.done /\ ~BothExcluded /\ ~urlParseFails(arg.HTTPProxy)) =>
        /\ out.at = "returned"
        /\ out.processed = RunConfig.VideoIDs
        /\ Len(out.exceptions) + Len(out.transcripts) + Len(out.transcriptLists)
              = Len(arg.VideoIDs)
        /\ out.err = NoError =>
              \A k, l \in 1 .. Len(SectionKinds(out.output)) :
                  (SectionKinds(out.output)[l] = "error" /\ k < l) =>
                      SectionKinds(out.output)[k] = "error"

(* --------------------------- catalog summary -------------------------- *)
\* C30: the catalog summary is a function of the catalog: two renderings of
\* TranscriptList.String() for the same catalog, one with two or more
\* languages in a category included, are the same text with the languages in
\* the same order.
C30_SummaryIsDeterministic ==
    \A k, l \in 1 .. Len(Renderings) : Renderings[k] = Renderings[l]

====
